---- MODULE Spec2Model ----
(***************************************************************************)
(* Apply AI: the form-detection-and-autofill pipeline (autoApplyToJob) of  *)
(* src/src/lib/auto-applier.ts ("direct" variant: the generator returns    *)
(* selectors) and of src/unnamed/part_002 ("reconciled" variant: the       *)
(* generator returns labels that are matched to surveyed fields), and the  *)
(* REST / tRPC operations that read or modify Application records.         *)
(*                                                                         *)
(* Strings whose content the code inspects (element text, attributes) are  *)
(* sequences of one-character strings; strings that are only compared for  *)
(* equality are TLA+ strings.  Confidence scores are in hundredths.        *)
(***************************************************************************)
EXTENDS Integers, Sequences, FiniteSets, TLC

VARIABLES
    variant,        \* "direct" | "reconciled": which revision of auto-applier runs
    options,        \* AutoApplyOptions: [coverLetter, reviewBeforeSubmit]
    pc,             \* position of autoApplyToJob
    browser,        \* "null" | "open": the local `browser` of autoApplyToJob
    result,         \* FormSubmissionResult returned, or NoResult
    failedStep,     \* the step of autoApplyToJob whose exception reached its catch block
    threw,          \* an exception escaped fillFormWithInstructions
    dom,            \* elements of the page as clickApplyButton sees them (DOM order)
    selIdx,         \* clickApplyButton: index of the next pattern to examine
    applyOutcome,   \* clickApplyButton: what the last examined pattern did
    applyThrew,     \* clickApplyButton: an exception was caught in some iteration
    applyClicked,   \* clickApplyButton: the element clicked successfully, or NoElement
    submitted,      \* a click on a form-submission control succeeded in this run
    viewportHeight, \* captureFormScreenshots
    documentHeight,
    currentScroll,
    screenshotCount,
    scrolledTo,     \* last position passed to window.scrollTo
    analysis,       \* FormAnalysisResult of analyzeFormScreenshots, or NoResult
    rawResponse,    \* shape of the generator's response text
    remaining,      \* fillFormWithInstructions: instructions of the list not yet processed
    instruction,    \* fillFormWithInstructions: the instruction of the last iteration
    calls,          \* page calls made for `instruction`, in order
    page,           \* how the page behaves for `instruction`, or NoPage
    failed,         \* the iteration for `instruction` ended in its catch block
    failedBefore,   \* some earlier iteration ended in its catch block
    acted,          \* the fill pass attempted a clear, fill, click or selectOption
    apps,           \* Application records (application store)
    lastOp,         \* last API operation that ran on / wrote an Application record
    runSubmitted,   \* the run of the last auto-apply operation clicked a submission control
    surveyor,       \* which field survey runs: "hierarchical" | "flat" | "detailed"
    form,           \* the form's input/textarea elements, in DOM order
    parents,        \* the parent elements that option inputs sit in
    fields,         \* Candidate Fields the survey returned, or NotSurveyed
    block,          \* the child inputs of a question block to classify
    questionType,   \* the questionType computed for the block, or "none"
    pair,           \* calculateMatchConfidence: the two labels compared
    pairConfidence, \* calculateMatchConfidence: the value returned
    formFields,     \* matchLabelsToSelectors: label texts of the surveyed fields
    matchPc,        \* matchLabelsToSelectors: "idle" | "loop" | "returned" | "threw"
    instrNo,        \* matchLabelsToSelectors: instructions processed so far
    geminiLabel,    \* labelText of the instruction of the last iteration
    matchingField,  \* position of the field found for it, or NoElement
    matchConfidence,\* matchConfidence of the pairing
    matched,        \* the `matched` list: [instr, labelText, field] per entry
    actuatorInput,  \* the list passed to fillFormWithInstructions
    scraperInstance,\* the singleton: an instance number, or NoScraper
    instances,      \* JobScraper instances created so far
    scraperBrowser, \* per instance: its `browser` field, a browser number or NoBrowser
    launched,       \* per browser launched: the instance that launched it, open/closed
    callPc,         \* per scrapeJobPosting call: where it stands
    scraper,        \* per call: the instance getJobScraper returned to it
    callPage,       \* per call: the browser of its open page, or NoPageOpen
    scrapeResult,   \* per call: "none" | "success" | "failure" | "rejected"
    cleanPc,        \* cleanupJobScraper: "idle" | "closing" | "closed"
    cleanups,       \* cleanupJobScraper calls started
    cleanTarget     \* cleanupJobScraper: the instance and browser being closed

inputVars == << variant, options >>
ctlVars == << pc, browser, result, failedStep >>
applyVars == << dom, selIdx, applyOutcome, applyThrew, applyClicked >>
shotVars == << viewportHeight, documentHeight, currentScroll, screenshotCount, scrolledTo >>
analysisVars == << analysis, rawResponse >>
fillVars == << remaining, instruction, calls, page, failed, failedBefore, acted, threw >>
runVars == << inputVars, ctlVars, applyVars, submitted, shotVars, analysisVars, fillVars >>
apiVars == << apps, lastOp, runSubmitted >>
surveyVars == << surveyor, form, parents, fields >>
classifyVars == << block, questionType >>
reconcileVars ==
    << pair, pairConfidence, formFields, matchPc, instrNo, geminiLabel, matchingField,
       matchConfidence, matched, actuatorInput >>
scraperVars ==
    << scraperInstance, instances, scraperBrowser, launched, callPc, scraper, callPage,
       scrapeResult, cleanPc, cleanups, cleanTarget >>
pureVars == << surveyVars, classifyVars, reconcileVars, scraperVars >>
vars == << runVars, apiVars, pureVars >>

(***************************************************************************)
(* Bounds of the model.                                                    *)
(***************************************************************************)
MaxElems == 2        \* elements on the page seen by clickApplyButton
MaxInstr == 2        \* instructions in the generator's list
MaxViewport == 2     \* window.innerHeight
MaxDocHeight == 22   \* document.body.scrollHeight

NoResult == [none |-> TRUE]
NoElement == 0

(***************************************************************************)
(* Strings as character sequences.                                         *)
(***************************************************************************)
LowerChar(c) ==
    CASE c = "A" -> "a"
      [] c = "E" -> "e"
      [] c = "N" -> "n"
      [] c = "S" -> "s"
      [] c = "Y" -> "y"
      [] c = "F" -> "f"
      [] c = "L" -> "l"
      [] c = "I" -> "i"
      [] c = "D" -> "d"
      [] OTHER -> c

ToLowerCase(s) == [i \in DOMAIN s |-> LowerChar(s[i])]

\* String.prototype.includes
Includes(s, sub) ==
    \E k \in 0..(Len(s) - Len(sub)) : SubSeq(s, k + 1, k + Len(sub)) = sub

TxtApply == <<"A","p","p","l","y">>
TxtApplyNow == <<"A","p","p","l","y"," ","N","o","w">>
TxtEasyApply == <<"E","a","s","y"," ","A","p","p","l","y">>
TxtSubmitApplication ==
    <<"S","u","b","m","i","t"," ","A","p","p","l","i","c","a","t","i","o","n">>
TxtApplyForThisJob ==
    <<"A","p","p","l","y"," ","f","o","r"," ","t","h","i","s"," ","j","o","b">>
TxtLowerApply == <<"a","p","p","l","y">>
TxtSend == <<"S","e","n","d">>
TxtApplyBox == <<"a","p","p","l","y","-","b","o","x">>
TxtEmpty == <<>>
(***************************************************************************)
(* The page as clickApplyButton sees it.                                   *)
(***************************************************************************)
\* Kinds of element a job page may hold; `submits` marks a form-submission control.
ElementKinds ==
    { [tag |-> "button", text |-> TxtApplyNow, cls |-> TxtEmpty, testid |-> TxtEmpty,
       aria |-> TxtEmpty, submits |-> FALSE],
      [tag |-> "button", text |-> TxtSubmitApplication, cls |-> TxtEmpty,
       testid |-> TxtEmpty, aria |-> TxtEmpty, submits |-> TRUE],
      [tag |-> "a", text |-> TxtEasyApply, cls |-> TxtEmpty, testid |-> TxtEmpty,
       aria |-> TxtEmpty, submits |-> FALSE],
      [tag |-> "div", text |-> TxtEmpty, cls |-> TxtApplyBox, testid |-> TxtEmpty,
       aria |-> TxtEmpty, submits |-> FALSE],
      [tag |-> "button", text |-> TxtSend, cls |-> TxtEmpty, testid |-> TxtEmpty,
       aria |-> TxtApply, submits |-> TRUE] }

Elements ==
    { [kind |-> k, visible |-> v] : k \in ElementKinds, v \in BOOLEAN }

Pages == UNION { [1..n -> Elements] : n \in 0..MaxElems }

\* The same patterns with the "Submit Application" button pattern tried first.
SubmitFirstSelectors ==
    << [tag |-> "button", attr |-> "text", needle |-> TxtSubmitApplication, ci |-> TRUE],
       [tag |-> "button", attr |-> "text", needle |-> TxtApply, ci |-> TRUE],
       [tag |-> "a", attr |-> "text", needle |-> TxtApply, ci |-> TRUE],
       [tag |-> "button", attr |-> "text", needle |-> TxtApplyNow, ci |-> TRUE],
       [tag |-> "a", attr |-> "text", needle |-> TxtApplyNow, ci |-> TRUE],
       [tag |-> "button", attr |-> "text", needle |-> TxtEasyApply, ci |-> TRUE],
       [tag |-> "a", attr |-> "text", needle |-> TxtEasyApply, ci |-> TRUE],
       [tag |-> "a", attr |-> "text", needle |-> TxtSubmitApplication, ci |-> TRUE],
       [tag |-> "button", attr |-> "text", needle |-> TxtApplyForThisJob, ci |-> TRUE],
       [tag |-> "a", attr |-> "text", needle |-> TxtApplyForThisJob, ci |-> TRUE],
       [tag |-> "*", attr |-> "testid", needle |-> TxtLowerApply, ci |-> FALSE],
       [tag |-> "*", attr |-> "class", needle |-> TxtLowerApply, ci |-> FALSE],
       [tag |-> "button", attr |-> "aria", needle |-> TxtLowerApply, ci |-> TRUE],
       [tag |-> "a", attr |-> "aria", needle |-> TxtLowerApply, ci |-> TRUE] >>

\* The fixed pattern list of clickApplyButton.  attr "text" is :has-text("..."),
\* which Playwright matches as a case-insensitive substring; ci is the `i` flag
\* of an attribute selector; tag "*" is a selector without a tag.
applyButtonSelectors ==
    << [tag |-> "button", attr |-> "text", needle |-> TxtApply, ci |-> TRUE],
       [tag |-> "a", attr |-> "text", needle |-> TxtApply, ci |-> TRUE],
       [tag |-> "button", attr |-> "text", needle |-> TxtApplyNow, ci |-> TRUE],
       [tag |-> "a", attr |-> "text", needle |-> TxtApplyNow, ci |-> TRUE],
       [tag |-> "button", attr |-> "text", needle |-> TxtEasyApply, ci |-> TRUE],
       [tag |-> "a", attr |-> "text", needle |-> TxtEasyApply, ci |-> TRUE],
       [tag |-> "button", attr |-> "text", needle |-> TxtSubmitApplication, ci |-> TRUE],
       [tag |-> "a", attr |-> "text", needle |-> TxtSubmitApplication, ci |-> TRUE],
       [tag |-> "button", attr |-> "text", needle |-> TxtApplyForThisJob, ci |-> TRUE],
       [tag |-> "a", attr |-> "text", needle |-> TxtApplyForThisJob, ci |-> TRUE],
       [tag |-> "*", attr |-> "testid", needle |-> TxtLowerApply, ci |-> FALSE],
       [tag |-> "*", attr |-> "class", needle |-> TxtLowerApply, ci |-> FALSE],
       [tag |-> "button", attr |-> "aria", needle |-> TxtLowerApply, ci |-> TRUE],
       [tag |-> "a", attr |-> "aria", needle |-> TxtLowerApply, ci |-> TRUE] >>

AttrOf(k, attr) ==
    CASE attr = "text" -> k.text
      [] attr = "testid" -> k.testid
      [] attr = "class" -> k.cls
      [] attr = "aria" -> k.aria

\* Whether element kind k matches selector sel.
Matches(k, sel) ==
    /\ sel.tag = "*" \/ sel.tag = k.tag
    /\ IF sel.ci
         THEN Includes(ToLowerCase(AttrOf(k, sel.attr)), ToLowerCase(sel.needle))
         ELSE Includes(AttrOf(k, sel.attr), sel.needle)

\* page.locator(sel).first(): the first matching element in DOM order, if any.
LocatorFirst(d, sel) ==
    IF \E i \in DOMAIN d : Matches(d[i].kind, sel)
      THEN CHOOSE i \in DOMAIN d :
             /\ Matches(d[i].kind, sel)
             /\ \A j \in DOMAIN d : Matches(d[j].kind, sel) => i <= j
      ELSE NoElement

\* locator.isVisible(): false when nothing matches.
IsVisible(d, i) == i # NoElement /\ d[i].visible

(***************************************************************************)
(* Exceptions and the result of a run.                                     *)
(***************************************************************************)
\* Values thrown by the browser driver and the generator client: Error objects
\* with their (non-empty) message, or values that are not Error instances.
Exceptions ==
    { [isError |-> TRUE, message |-> "Timeout 30000ms exceeded"],
      [isError |-> FALSE, message |-> ""] }

\* A catch block that reports error.message whatever was thrown.
MessageOfAny(e, fallback) == e.message

\* error instanceof Error ? error.message : fallback
MessageOf(e, fallback) == IF e.isError THEN e.message ELSE fallback

\* The catch block of autoApplyToJob: the run's single failure result.
CatchResult(e) ==
    [success |-> FALSE, error |-> MessageOf(e, "Failed to auto-apply"), finalUrl |-> ""]

\* The return statement after the fill pass.
SuccessResult == [success |-> TRUE, error |-> "", finalUrl |-> "page.url()"]

\* An exception thrown in `step` reaches the catch block of autoApplyToJob,
\* which returns the failure result and does not close the browser.
Caught(e, step) ==
    /\ result' = CatchResult(e)
    /\ failedStep' = step
    /\ pc' = "done"
    /\ UNCHANGED browser

\* The step returned normally; autoApplyToJob goes on at `next`.
Proceed(next) ==
    /\ pc' = next
    /\ UNCHANGED << browser, result, failedStep >>

(***************************************************************************)
(* autoApplyToJob up to the apply-button search.                           *)
(***************************************************************************)
Launch ==
    /\ pc = "launch"
    /\ \/ /\ browser' = "open"
          /\ pc' = "newPage"
          /\ UNCHANGED << result, failedStep >>
       \/ \E e \in Exceptions : Caught(e, "launch")
    /\ UNCHANGED << inputVars, applyVars, submitted, shotVars, analysisVars, fillVars,
                    apiVars, pureVars >>

NewPage ==
    /\ pc = "newPage"
    /\ \/ Proceed("goto")
       \/ \E e \in Exceptions : Caught(e, "newPage")
    /\ UNCHANGED << inputVars, applyVars, submitted, shotVars, analysisVars, fillVars,
                    apiVars, pureVars >>

\* page.goto(url) and the 3 s settle wait; the page then shows some DOM.
Goto ==
    /\ pc = "goto"
    /\ \/ /\ \E d \in Pages : dom' = d
          /\ selIdx' = 1
          /\ Proceed("apply")
       \/ /\ \E e \in Exceptions : Caught(e, "goto")
          /\ UNCHANGED << dom, selIdx >>
    /\ UNCHANGED << inputVars, applyOutcome, applyThrew, applyClicked, submitted,
                    shotVars, analysisVars, fillVars, apiVars, pureVars >>

\* A loop body without the try/catch: a visibility check or click that throws
\* ends clickApplyButton and, through it, the run.
ApplyIterationUncaught ==
    /\ pc = "apply"
    /\ selIdx <= Len(applyButtonSelectors)
    /\ LET applyButton == LocatorFirst(dom, applyButtonSelectors[selIdx]) IN
       \/ /\ applyOutcome' = "visibleThrew"
          /\ applyThrew' = TRUE
          /\ \E e \in Exceptions : Caught(e, "apply")
          /\ UNCHANGED << selIdx, applyClicked, submitted >>
       \/ /\ ~IsVisible(dom, applyButton)
          /\ applyOutcome' = "notVisible"
          /\ selIdx' = selIdx + 1
          /\ UNCHANGED << ctlVars, applyThrew, applyClicked, submitted >>
       \/ /\ IsVisible(dom, applyButton)
          /\ applyOutcome' = "clickThrew"
          /\ applyThrew' = TRUE
          /\ \E e \in Exceptions : Caught(e, "apply")
          /\ UNCHANGED << selIdx, applyClicked, submitted >>
       \/ /\ IsVisible(dom, applyButton)
          /\ applyOutcome' = "clicked"
          /\ applyClicked' = applyButton
          /\ submitted' = (submitted \/ dom[applyButton].kind.submits)
          /\ Proceed("applied")
          /\ UNCHANGED << selIdx, applyThrew >>
    /\ UNCHANGED << inputVars, dom, shotVars, analysisVars, fillVars, apiVars, pureVars >>

(***************************************************************************)
(* clickApplyButton: one action per iteration of the loop over the pattern *)
(* list.  isVisible() and click() may each throw; the catch continues with *)
(* the next pattern.                                                       *)
(***************************************************************************)
ApplyIteration ==
    /\ pc = "apply"
    /\ selIdx <= Len(applyButtonSelectors)
    /\ LET applyButton == LocatorFirst(dom, applyButtonSelectors[selIdx]) IN
       \/ \* isVisible() throws: catch, continue
          /\ applyOutcome' = "visibleThrew"
          /\ applyThrew' = TRUE
          /\ selIdx' = selIdx + 1
          /\ UNCHANGED << ctlVars, applyClicked, submitted >>
       \/ \* not visible (or no match): next pattern
          /\ ~IsVisible(dom, applyButton)
          /\ applyOutcome' = "notVisible"
          /\ selIdx' = selIdx + 1
          /\ UNCHANGED << ctlVars, applyThrew, applyClicked, submitted >>
       \/ \* visible, click() throws: catch, continue
          /\ IsVisible(dom, applyButton)
          /\ applyOutcome' = "clickThrew"
          /\ applyThrew' = TRUE
          /\ selIdx' = selIdx + 1
          /\ UNCHANGED << ctlVars, applyClicked, submitted >>
       \/ \* visible, click() succeeds, 3 s settle wait: return
          /\ IsVisible(dom, applyButton)
          /\ applyOutcome' = "clicked"
          /\ applyClicked' = applyButton
          /\ submitted' = (submitted \/ dom[applyButton].kind.submits)
          /\ Proceed("applied")
          /\ UNCHANGED << selIdx, applyThrew >>
    /\ UNCHANGED << inputVars, dom, shotVars, analysisVars, fillVars, apiVars, pureVars >>

\* No pattern yielded a visible element: return without clicking.
ApplyNoButton ==
    /\ pc = "apply"
    /\ selIdx > Len(applyButtonSelectors)
    /\ Proceed("applied")
    /\ UNCHANGED << inputVars, applyVars, submitted, shotVars, analysisVars, fillVars,
                    apiVars, pureVars >>

(***************************************************************************)
(* captureFormScreenshots: one action per iteration of the while loop.     *)
(***************************************************************************)
MaxScreenshots == 10

\* A loop without the safety check.
LimitNeverReached(count) == FALSE

\* The safety check that ends the loop: `if (screenshotCount > 10) break`.
LimitReached(count) == count > MaxScreenshots

\* Scroll to top, settle, read the viewport height (0 for a window without
\* height) and the document height.  The locals of
\* clickApplyButton are gone, and the page (which the click may have navigated)
\* is read afresh from here on.
CaptureStart ==
    /\ pc = "applied"
    /\ dom' = << >>
    /\ selIdx' = 0
    /\ applyOutcome' = "none"
    /\ applyThrew' = FALSE
    /\ applyClicked' = NoElement
    /\ \/ /\ \E vh \in 0..MaxViewport, dh \in 0..MaxDocHeight :
               /\ viewportHeight' = vh
               /\ documentHeight' = dh
          /\ currentScroll' = 0
          /\ screenshotCount' = 0
          /\ scrolledTo' = 0
          /\ Proceed("shots")
       \/ /\ \E e \in Exceptions : Caught(e, "capture")
          /\ UNCHANGED shotVars
    /\ UNCHANGED << inputVars, submitted, analysisVars, fillVars, apiVars, pureVars >>

ShotIteration ==
    /\ pc = "shots"
    /\ currentScroll < documentHeight
    /\ \/ \* page.screenshot() throws
          /\ \E e \in Exceptions : Caught(e, "capture")
          /\ UNCHANGED shotVars
       \/ \* screenshot taken and pushed
          /\ screenshotCount' = screenshotCount + 1
          /\ LET remainingHeight == documentHeight - (currentScroll + viewportHeight) IN
             IF remainingHeight <= 0
               THEN \* reached end of document: break
                    /\ Proceed("captured")
                    /\ UNCHANGED << currentScroll, scrolledTo >>
               ELSE /\ currentScroll' = currentScroll + viewportHeight
                    /\ \/ \* window.scrollTo throws
                          /\ \E e \in Exceptions : Caught(e, "capture")
                          /\ UNCHANGED scrolledTo
                       \/ /\ scrolledTo' = currentScroll'
                          /\ Proceed(IF LimitReached(screenshotCount') THEN "captured"
                                     ELSE "shots")
          /\ UNCHANGED << viewportHeight, documentHeight >>
    /\ UNCHANGED << inputVars, applyVars, submitted, analysisVars, fillVars, apiVars, pureVars >>

\* The loop condition is false on entry (an empty document).
ShotLoopExit ==
    /\ pc = "shots"
    /\ ~(currentScroll < documentHeight)
    /\ Proceed("captured")
    /\ UNCHANGED << inputVars, applyVars, submitted, shotVars, analysisVars, fillVars,
                    apiVars, pureVars >>

\* captureFormScreenshots has returned; autoApplyToJob goes on with the survey
\* (direct variant) or with the analysis (reconciled variant).
CaptureReturn ==
    /\ pc = "captured"
    /\ Proceed(IF variant = "direct" THEN "survey" ELSE "analyze")
    /\ viewportHeight' = 0
    /\ documentHeight' = 0
    /\ currentScroll' = 0
    /\ screenshotCount' = 0
    /\ scrolledTo' = 0
    /\ UNCHANGED << inputVars, applyVars, submitted, analysisVars, fillVars, apiVars, pureVars >>

(***************************************************************************)
(* scrapeFormFields as a step of the run: it returns or it throws.         *)
(***************************************************************************)
Survey ==
    /\ pc = "survey"
    /\ \/ Proceed(IF variant = "direct" THEN "analyze" ELSE "match")
       \/ \E e \in Exceptions : Caught(e, "survey")
    /\ UNCHANGED << inputVars, applyVars, submitted, shotVars, analysisVars, fillVars,
                    apiVars, pureVars >>

(***************************************************************************)
(* analyzeFormScreenshots.                                                 *)
(***************************************************************************)
\* What the generator's response text can be, as far as the parsing code tells
\* responses apart: the call throws; no {...} in the text; JSON.parse throws;
\* no `instructions` key; `instructions` not an array; a well-formed list.
ResponseShapes ==
    { "callThrew", "noJsonObject", "unparseable", "noInstructionsKey",
      "instructionsNotArray", "wellFormed" }

\* The Error reaching the catch block of analyzeFormScreenshots, by response shape.
AnalysisError(shape, e) ==
    CASE shape = "callThrew" -> e
      [] shape = "noJsonObject" ->
           [isError |-> TRUE, message |-> "No JSON object found in response"]
      [] shape = "unparseable" ->
           [isError |-> TRUE, message |-> "Unexpected token in JSON"]
      [] shape \in {"noInstructionsKey", "instructionsNotArray"} ->
           [isError |-> TRUE,
            message |-> "Invalid response format: missing instructions array"]

\* A parser that salvages a response whose `instructions` is not an array.
AnalyzeSalvaging(shape, e, n) ==
    IF shape \in {"wellFormed", "instructionsNotArray"}
      THEN [success |-> TRUE, instructions |-> n, error |-> ""]
      ELSE [success |-> FALSE, instructions |-> 0,
            error |-> MessageOf(AnalysisError(shape, e),
                                "Failed to analyze form screenshots")]

\* The FormAnalysisResult; `instructions` is the length of the returned list.
AnalyzeFormScreenshots(shape, e, n) ==
    IF shape = "wellFormed"
      THEN [success |-> TRUE, instructions |-> n, error |-> ""]
      ELSE [success |-> FALSE, instructions |-> 0,
            error |-> MessageOf(AnalysisError(shape, e),
                                "Failed to analyze form screenshots")]

\* throw new Error(analysisResult.error || 'Failed to analyze form screenshots')
AnalysisFailure(a) ==
    [isError |-> TRUE,
     message |-> IF a.error # "" THEN a.error ELSE "Failed to analyze form screenshots"]

\* The call of analyzeFormScreenshots and the check of its result.  In the direct
\* variant the returned list goes to the fill pass as it is.
Analyze ==
    /\ pc = "analyze"
    /\ \E shape \in ResponseShapes, e \in Exceptions, n \in 0..MaxInstr :
         LET a == AnalyzeFormScreenshots(shape, e, n) IN
         /\ rawResponse' = shape
         /\ analysis' = a
         /\ IF ~a.success
              THEN /\ Caught(AnalysisFailure(a), "analyze")
                   /\ UNCHANGED remaining
              ELSE /\ Proceed(IF variant = "direct" THEN "fill" ELSE "survey")
                   /\ remaining' = IF variant = "direct" THEN a.instructions ELSE 0
    /\ UNCHANGED << inputVars, applyVars, submitted, shotVars, instruction, calls, page,
                    failed, failedBefore, acted, threw, apiVars, pureVars >>

(***************************************************************************)
(* matchLabelsToSelectors as a step of the run (reconciled variant): it    *)
(* keeps the instructions for which findMatchingField finds a field, or    *)
(* throws a TypeError when an instruction carries no labelText string.     *)
(***************************************************************************)
Match ==
    /\ pc = "match"
    /\ \/ /\ \E m \in 0..analysis.instructions : remaining' = m
          /\ Proceed("fill")
       \/ /\ analysis.instructions > 0
          /\ Caught([isError |-> TRUE, message |-> "Cannot read properties of undefined"],
                    "match")
          /\ UNCHANGED remaining
    /\ UNCHANGED << inputVars, applyVars, submitted, shotVars, analysisVars, instruction,
                    calls, page, failed, failedBefore, acted, threw, apiVars, pureVars >>

(***************************************************************************)
(* JavaScript values of the fields the generator returns.                  *)
(***************************************************************************)
Undefined == [type |-> "undefined", chars |-> << >>, n |-> 0]
Str(s) == [type |-> "string", chars |-> s, n |-> 0]
Num(k) == [type |-> "number", chars |-> << >>, n |-> k]

\* !v is false
Truthy(v) ==
    \/ v.type = "string" /\ v.chars # << >>
    \/ v.type = "number" /\ v.n # 0

\* v < k for a number k: false when v is undefined (NaN compares false)
LessThan(v, k) == v.type = "number" /\ v.n < k

RECURSIVE TrimStart(_)
TrimStart(s) == IF s # << >> /\ Head(s) = " " THEN TrimStart(Tail(s)) ELSE s

RECURSIVE TrimEnd(_)
TrimEnd(s) ==
    IF s # << >> /\ s[Len(s)] = " " THEN TrimEnd(SubSeq(s, 1, Len(s) - 1)) ELSE s

\* String.prototype.trim
Trim(s) == TrimEnd(TrimStart(s))

TxtNA == <<"N","/","A">>
TxtBlank == <<" "," ">>
TxtJane == <<"J","a","n","e">>
TxtDear == <<"D","e","a","r">>
\* '[COVER_LETTER_FROM_DATABASE]'
Sentinel ==
    <<"[","C","O","V","E","R","_","L","E","T","T","E","R","_","F","R","O","M","_",
      "D","A","T","A","B","A","S","E","]">>

ConfidenceThreshold == 50

ActionKinds == {"fill", "click", "select"}

\* Selectors an instruction may carry; "#submit" is the form's submit control
\* (an <input type="submit">, which the surveys list like any other input).
Selectors == {"#firstName", "#submit"}
IsSubmitControl(sel) == sel = "#submit"

\* Instructions the generator may return (FormFillInstruction); the reconciled
\* variant adds matchConfidence (MatchedInstruction).
Instructions(v) ==
    [action : ActionKinds \cup {"hover"},
     value : {Undefined, Str(<< >>), Str(TxtBlank), Str(TxtNA), Str(TxtJane), Str(Sentinel)},
     selector : Selectors,
     confidence : {Undefined, Num(30), Num(50)},
     matchConfidence : IF v = "reconciled" THEN {Num(33), Num(80)} ELSE {Undefined}]

\* The value of `instruction` outside an iteration.
NoInstruction ==
    [action |-> "none", value |-> Undefined, selector |-> "", confidence |-> Undefined,
     matchConfidence |-> Undefined]

\* What the page does during one iteration: whether the located element is
\* visible, whether scrolling it into view throws, and which other page call
\* (if any) throws.
PageBehaviours ==
    [visible : BOOLEAN,
     scrollThrows : BOOLEAN,
     throwAt : {"none", "isVisible", "clear", "fill", "click", "selectOption"}]

\* The value of `page` outside an iteration.
NoPage == [visible |-> TRUE, scrollThrows |-> FALSE, throwAt |-> "outside"]

Call(op, instr, arg, env) ==
    [op |-> op, selector |-> instr.selector, arg |-> arg,
     ok |-> IF op = "scrollIntoViewIfNeeded" THEN ~env.scrollThrows
            ELSE env.throwAt # op]

\* An empty-value gate without the trim.
SkipsEmptyUntrimmed(instr) ==
    \/ ~Truthy(instr.value)
    \/ instr.value = Str(TxtNA)

\* A confidence gate that only logs: nothing is skipped for its confidence.
LogsLowConfidence(instr) == FALSE

\* A fill that writes the instruction's value as it is.
FillValueLiteral(instr, opts) == instr.value.chars

\* A loop body without the try/catch: a failed iteration ends the loop.
LoopStopsOnFailure(out) == ~out.failed

\* The three skip gates at the top of the loop body.
SkipsEmptyValue(instr) ==
    \/ ~Truthy(instr.value)
    \/ Trim(instr.value.chars) = << >>
    \/ instr.value = Str(TxtNA)

SkipsLowConfidence(instr) == LessThan(instr.confidence, ConfidenceThreshold)

SkipsLowMatchConfidence(instr, v) ==
    v = "reconciled" /\ LessThan(instr.matchConfidence, ConfidenceThreshold)

\* value === '[COVER_LETTER_FROM_DATABASE]' ? (options.coverLetter || '') : value
FillValue(instr, opts) ==
    IF instr.value = Str(Sentinel)
      THEN (IF Truthy(opts.coverLetter) THEN opts.coverLetter.chars ELSE << >>)
      ELSE instr.value.chars

\* The calls of the action proper, after the visibility check and the scroll.
ActionCalls(instr, opts, env) ==
    CASE instr.action = "fill" ->
           IF env.throwAt = "clear"
             THEN << Call("clear", instr, << >>, env) >>
             ELSE << Call("clear", instr, << >>, env),
                     Call("fill", instr, FillValue(instr, opts), env) >>
      [] instr.action = "click" -> << Call("click", instr, << >>, env) >>
      [] instr.action = "select" ->
           << Call("selectOption", instr, instr.value.chars, env) >>

\* A loop body that acts on the located element whether it is visible or not.
FillOutcomeUnchecked(instr, opts, v, env) ==
    IF \/ SkipsEmptyValue(instr)
       \/ SkipsLowConfidence(instr)
       \/ SkipsLowMatchConfidence(instr, v)
       \/ instr.action \notin ActionKinds
      THEN [calls |-> << >>, failed |-> FALSE]
    ELSE IF env.throwAt = "isVisible"
      THEN [calls |-> << Call("isVisible", instr, << >>, env) >>, failed |-> TRUE]
    ELSE LET acts == ActionCalls(instr, opts, env) IN
         [calls |-> << Call("isVisible", instr, << >>, env),
                       Call("scrollIntoViewIfNeeded", instr, << >>, env) >> \o acts,
          failed |-> \E i \in DOMAIN acts : ~acts[i].ok]

\* A loop body without the inner try: a scroll that throws ends the iteration.
FillOutcomeScrollFatal(instr, opts, v, env) ==
    IF \/ SkipsEmptyValue(instr)
       \/ SkipsLowConfidence(instr)
       \/ SkipsLowMatchConfidence(instr, v)
       \/ instr.action \notin ActionKinds
      THEN [calls |-> << >>, failed |-> FALSE]
    ELSE IF env.throwAt = "isVisible"
      THEN [calls |-> << Call("isVisible", instr, << >>, env) >>, failed |-> TRUE]
    ELSE IF ~env.visible
      THEN [calls |-> << Call("isVisible", instr, << >>, env) >>, failed |-> FALSE]
    ELSE IF env.scrollThrows
      THEN [calls |-> << Call("isVisible", instr, << >>, env),
                         Call("scrollIntoViewIfNeeded", instr, << >>, env) >>,
            failed |-> TRUE]
    ELSE LET acts == ActionCalls(instr, opts, env) IN
         [calls |-> << Call("isVisible", instr, << >>, env),
                       Call("scrollIntoViewIfNeeded", instr, << >>, env) >> \o acts,
          failed |-> \E i \in DOMAIN acts : ~acts[i].ok]

\* The body of one loop iteration: the page calls it makes, in order, and whether
\* it ended in the catch block.  A scroll that throws is caught by the inner
\* try and the action is still performed.
FillOutcome(instr, opts, v, env) ==
    IF \/ SkipsEmptyValue(instr)
       \/ SkipsLowConfidence(instr)
       \/ SkipsLowMatchConfidence(instr, v)
       \/ instr.action \notin ActionKinds
      THEN [calls |-> << >>, failed |-> FALSE]
    ELSE IF env.throwAt = "isVisible"
      THEN [calls |-> << Call("isVisible", instr, << >>, env) >>, failed |-> TRUE]
    ELSE IF ~env.visible
      THEN [calls |-> << Call("isVisible", instr, << >>, env) >>, failed |-> FALSE]
    ELSE LET acts == ActionCalls(instr, opts, env) IN
         [calls |-> << Call("isVisible", instr, << >>, env),
                       Call("scrollIntoViewIfNeeded", instr, << >>, env) >> \o acts,
          failed |-> \E i \in DOMAIN acts : ~acts[i].ok]

\* The page calls an iteration for instr can reach, which are the only ones
\* whose behaviour matters to it.
PageCallsOf(instr, v) ==
    IF \/ SkipsEmptyValue(instr)
       \/ SkipsLowConfidence(instr)
       \/ SkipsLowMatchConfidence(instr, v)
       \/ instr.action \notin ActionKinds
      THEN { }
    ELSE {"isVisible", "scrollIntoViewIfNeeded"}
         \cup (CASE instr.action = "fill" -> {"clear", "fill"}
                 [] instr.action = "click" -> {"click"}
                 [] instr.action = "select" -> {"selectOption"})

PageBehavioursFor(instr, v) ==
    { env \in PageBehaviours :
        /\ env.throwAt \in PageCallsOf(instr, v) \cup {"none"}
        /\ env.scrollThrows => "scrollIntoViewIfNeeded" \in PageCallsOf(instr, v)
        /\ env.visible \/ "isVisible" \in PageCallsOf(instr, v) }

\* The page calls that act on the form.
ActuatorOps == {"clear", "fill", "click", "selectOption"}

\* try { ... } catch (error) { console.log(...) } around the loop body: an
\* iteration that failed is logged and the loop goes on with the next instruction.
LoopContinuesAfter(out) == TRUE

\* The loop takes the next instruction of the list and runs the body on it.
FillIteration ==
    /\ pc = "fill"
    /\ remaining > 0
    /\ instruction = NoInstruction
    /\ \E instr \in Instructions(variant) :
       \E env \in PageBehavioursFor(instr, variant) :
         LET out == FillOutcome(instr, options, variant, env) IN
         /\ instruction' = instr
         /\ page' = env
         /\ calls' = out.calls
         /\ failed' = out.failed
         /\ acted' = (acted \/ \E i \in DOMAIN out.calls : out.calls[i].op \in ActuatorOps)
         /\ submitted' = (submitted \/ \E i \in DOMAIN out.calls :
                             /\ out.calls[i].op = "click"
                             /\ out.calls[i].ok
                             /\ IsSubmitControl(out.calls[i].selector))
         /\ IF LoopContinuesAfter(out)
              THEN /\ remaining' = remaining - 1
                   /\ UNCHANGED << ctlVars, threw >>
              ELSE \* the error escapes fillFormWithInstructions
                   /\ threw' = TRUE
                   /\ Caught([isError |-> TRUE, message |-> "page call failed"], "fill")
                   /\ UNCHANGED remaining
    /\ UNCHANGED << inputVars, applyVars, shotVars, analysisVars, failedBefore, apiVars, pureVars >>

\* The iteration's locals go out of scope before the loop condition is tested again.
FillIterationEnd ==
    /\ pc = "fill"
    /\ instruction # NoInstruction
    /\ instruction' = NoInstruction
    /\ page' = NoPage
    /\ calls' = << >>
    /\ failed' = FALSE
    /\ failedBefore' = (failedBefore \/ failed)
    /\ UNCHANGED << inputVars, ctlVars, applyVars, submitted, shotVars, analysisVars,
                    remaining, acted, threw, apiVars, pureVars >>

\* The loop is over: autoApplyToJob returns success with the page's URL and
\* leaves the browser open.
FillReturn ==
    /\ pc = "fill"
    /\ remaining = 0
    /\ instruction = NoInstruction
    /\ result' = SuccessResult
    /\ pc' = "done"
    /\ UNCHANGED << browser, failedStep >>
    /\ UNCHANGED << inputVars, applyVars, submitted, shotVars, analysisVars, fillVars,
                    apiVars, pureVars >>

(***************************************************************************)
(* The Application records and the API operations on them.                 *)
(***************************************************************************)
Users == {"userA", "userB"}
AppIds == {"app1", "app2"}

\* getServerSession: the id of the signed-in user, or no session.
Sessions == Users \cup {"anonymous"}

\* Ids a request may name: an existing record or one that does not exist.
RequestIds == AppIds \cup {"missing"}

\* The records after each user has analysed the same job posting
\* (analyzeJobPosting creates them with status 'Analyzed'); both users have
\* uploaded a resume, so the checks for url, description and resume pass.
\* Of the columns the operations write, the record keeps status, formData and
\* submissionStatus; the cover letter text, fit score and timestamps are
\* written together with a status and are not kept apart from it.
InitApps ==
    [a \in AppIds |->
       [userId |-> IF a = "app1" THEN "userA" ELSE "userB",
        url |-> "https://jobs.example/1",
        status |-> "Analyzed", formData |-> FALSE, submissionStatus |-> "none"]]

\* db.application.findUnique({ where: { id } })
FindUnique(id) == IF id \in AppIds THEN {id} ELSE {}

\* db.application.findFirst({ where: { id, userId } }) and the record a Prisma
\* update with where { id, userId } applies to
FindOwned(id, user) == {a \in FindUnique(id) : apps[a].userId = user}

\* What a request did: the session user, the records it read to start a browser
\* run or a generation on, and the records it wrote.
Request(user, ran, wrote) == [user |-> user, ran |-> ran, wrote |-> wrote]

\* db.application.update / updateMany: the records in `targets` get the fields
\* of `data`.
Update(targets, data) ==
    [a \in AppIds |->
       IF a \in targets
         THEN [f \in DOMAIN apps[a] |-> IF f \in DOMAIN data THEN data[f] ELSE apps[a][f]]
         ELSE apps[a]]

\* The run of autoApplyToJob that an auto-apply operation starts for the
\* records in `ran` has or has not clicked a submission control on the way
\* (the `submitted` of the run).
RunRecorded(ran, clickedSubmit) == ran # {} /\ clickedSubmit

\* POST /api/application/auto-apply: the record is looked up by id alone.
RestAutoApply ==
    /\ \E user \in Sessions, id \in RequestIds, reviewBeforeSubmit \in BOOLEAN,
          success \in BOOLEAN, clickedSubmit \in BOOLEAN :
         LET found == IF user \in Users THEN FindUnique(id) ELSE {} IN
         /\ lastOp' = Request(user, found, IF success THEN found ELSE {})
         /\ apps' = IF success
                      THEN Update(found,
                             [status |-> IF reviewBeforeSubmit THEN "Requires Review"
                                         ELSE "Applied",
                              submissionStatus |-> "submitted"])
                      ELSE apps
         /\ runSubmitted' = RunRecorded(found, clickedSubmit)
    /\ UNCHANGED << runVars, pureVars >>

\* POST /api/application/detect-form-fields: looked up by id alone.
RestDetectFormFields ==
    /\ \E user \in Sessions, id \in RequestIds, success \in BOOLEAN :
         LET found == IF user \in Users THEN FindUnique(id) ELSE {} IN
         /\ lastOp' = Request(user, found, IF success THEN found ELSE {})
         /\ apps' = IF success
                      THEN Update(found, [formData |-> TRUE,
                                          status |-> "Form Fields Detected"])
                      ELSE apps
    /\ UNCHANGED << runVars, pureVars, runSubmitted >>

\* POST /api/cover-letter/generate: looked up by id alone; a generation that
\* throws ends in the 500 response without a write.
RestGenerateCoverLetter ==
    /\ \E user \in Sessions, id \in RequestIds, success \in BOOLEAN :
         LET found == IF user \in Users THEN FindUnique(id) ELSE {} IN
         /\ lastOp' = Request(user, found, IF success THEN found ELSE {})
         /\ apps' = IF success
                      THEN Update(found, [status |-> "Cover Letter Generated"])
                      ELSE apps
    /\ UNCHANGED << runVars, pureVars, runSubmitted >>

\* Status values a client sends to the status-update operations.
StatusInputs == {"Rejected"}

\* POST of the status-update route: 403 unless the record is the session user's.
RestUpdateStatus ==
    /\ \E user \in Sessions, id \in RequestIds, status \in StatusInputs :
         LET found == IF user \in Users THEN FindUnique(id) ELSE {}
             own == {a \in found : ~(apps[a].userId # user)} IN
         /\ lastOp' = Request(user, {}, own)
         /\ apps' = Update(own, [status |-> status])
    /\ UNCHANGED << runVars, pureVars, runSubmitted >>

\* tRPC generateCoverLetter: findFirst by id and session user.
GenerateCoverLetter ==
    /\ \E user \in Users, id \in RequestIds, success \in BOOLEAN :
         LET found == FindOwned(id, user) IN
         /\ lastOp' = Request(user, found, IF success THEN found ELSE {})
         /\ apps' = IF success
                      THEN Update(found, [status |-> "Cover Letter Generated"])
                      ELSE apps
    /\ UNCHANGED << runVars, pureVars, runSubmitted >>

\* tRPC update: where { id, userId }.
UpdateApplication ==
    /\ \E user \in Users, id \in RequestIds, status \in StatusInputs :
         LET found == FindOwned(id, user) IN
         /\ lastOp' = Request(user, {}, found)
         /\ apps' = Update(found, [status |-> status])
    /\ UNCHANGED << runVars, pureVars, runSubmitted >>

\* tRPC detectFormFields: updateMany where { url, userId }.
DetectFormFields ==
    /\ \E user \in Users, url \in {apps[a].url : a \in AppIds}, success \in BOOLEAN :
         LET found == {a \in AppIds : apps[a].url = url /\ apps[a].userId = user} IN
         /\ lastOp' = Request(user, {}, IF success THEN found ELSE {})
         /\ apps' = IF success THEN Update(found, [formData |-> TRUE]) ELSE apps
    /\ UNCHANGED << runVars, pureVars, runSubmitted >>

\* tRPC autoApply: findFirst by id and session user; the run's outcome is
\* recorded whether it succeeded or not.
AutoApply ==
    /\ \E user \in Users, id \in RequestIds, success \in BOOLEAN,
          clickedSubmit \in BOOLEAN :
         LET found == FindOwned(id, user) IN
         /\ lastOp' = Request(user, found, found)
         /\ apps' = Update(found, [submissionStatus |-> IF success THEN "submitted"
                                                        ELSE "failed"])
         /\ runSubmitted' = RunRecorded(found, clickedSubmit)
    /\ UNCHANGED << runVars, pureVars >>

\* z.enum(['pending', 'submitted', 'failed', 'requires_review'])
SubmissionStatuses == {"pending", "submitted", "failed", "requires_review"}

\* tRPC updateSubmissionStatus: where { id, userId }.
UpdateSubmissionStatus ==
    /\ \E user \in Users, id \in RequestIds, status \in SubmissionStatuses :
         LET found == FindOwned(id, user) IN
         /\ lastOp' = Request(user, {}, found)
         /\ apps' = Update(found, [submissionStatus |-> status])
    /\ UNCHANGED << runVars, pureVars, runSubmitted >>

(***************************************************************************)
(* The field surveys: scrapeFormFields of auto-applier.ts (hierarchical),  *)
(* scrapeFormFields of part_002 (flat) and scrapeDetailedFormFields of     *)
(* part_004 (detailed), and the selectors they derive.                     *)
(***************************************************************************)
MaxFormElems == 2    \* input/textarea elements of the surveyed form

NotSurveyed == << [none |-> TRUE] >>

TxtYes == <<"Y","e","s">>
TxtNo == <<"N","o">>

\* The form's root (parent 0) holds the text inputs, textareas, hidden inputs
\* and radio buttons; checkboxes sit in one of two parent elements.  A parent
\* has the text of its first `span.ng-binding, label` descendant (empty: it
\* has none), and is or is not an `li.option` item of a visible question
\* container that has a heading.
ParentIds == {1, 2}
ParentKinds ==
    { [label |-> TxtYes, option |-> TRUE],
      [label |-> TxtNo, option |-> TRUE],
      [label |-> TxtEmpty, option |-> FALSE] }
FormRoot == [label |-> TxtEmpty, option |-> FALSE]
ParentOf(ps, el) == IF el.parent = 0 THEN FormRoot ELSE ps[el.parent]

\* Elements a form may hold.  An attribute that is absent is "": the surveys
\* read every attribute as `getAttribute(...) || ''`.
FormElements ==
    [tag : {"input", "textarea"}, type : {""}, id : {"", "a"}, name : {"", "n"},
     value : {""}, parent : {0}]
    \cup [tag : {"input"}, type : {"hidden"}, id : {""}, name : {""}, value : {""},
          parent : {0}]
    \cup [tag : {"input"}, type : {"radio"}, id : {"", "a"}, name : {"", "n"},
          value : {"", "v", "w"}, parent : {0}]
    \cup [tag : {"input"}, type : {"checkbox"}, id : {"", "a"}, name : {"", "n"},
          value : {"", "v", "w"}, parent : ParentIds]

Forms == UNION { [1..n -> FormElements] : n \in 0..MaxFormElems }

\* getAttribute('type') || 'text'
TypeOf(el) == IF el.type = "" THEN "text" ELSE el.type

\* Selectors, by the template they are built from:
\*   id          #<a>
\*   nameValue   input[name="<a>"][value="<b>"]
\*   optionText  li.option:has-text("<text>") input[type="checkbox"]
\*   inputName   input[name="<a>"]
\*   anyName     input[name="<a>"], textarea[name="<a>"], select[name="<a>"]
\*   tagName     <tag>[name="<a>"]
\*   nthOfType   <tag>:nth-of-type(<n>)
\*   attrName    [name="<a>"]
\*   tagType     <tag>[type="<a>"]
\*   empty       the empty string
Selector(kind, tag, a, b, text, n) ==
    [kind |-> kind, tag |-> tag, a |-> a, b |-> b, text |-> text, n |-> n]

\* generateSelector of the hierarchical survey
generateSelector(el, ps) ==
    LET type == TypeOf(el)
        labelText == Trim(ParentOf(ps, el).label)
    IN  IF type = "radio" /\ el.value # ""
          THEN Selector("nameValue", "input", el.name, el.value, << >>, 0)
        ELSE IF type = "checkbox" /\ el.name # ""
          THEN IF labelText # << >>
                 THEN Selector("optionText", "input", "", "", labelText, 0)
               ELSE IF el.value # ""
                 THEN Selector("nameValue", "input", el.name, el.value, << >>, 0)
               ELSE Selector("inputName", "input", el.name, "", << >>, 0)
        ELSE IF el.id # ""
          THEN Selector("id", "", el.id, "", << >>, 0)
        ELSE IF el.name # ""
          THEN Selector("anyName", "", el.name, "", << >>, 0)
        ELSE Selector("empty", "", "", "", << >>, 0)

\* The selector of the flat survey, for the element at `index` (from 0) of
\* querySelectorAll('input, textarea, select').
FlatSelector(el, index) ==
    IF el.id # "" THEN Selector("id", "", el.id, "", << >>, 0)
    ELSE IF el.name # "" THEN Selector("tagName", el.tag, el.name, "", << >>, 0)
    ELSE Selector("nthOfType", el.tag, "", "", << >>, index + 1)

\* The selector of the detailed survey.
DetailedSelector(el) ==
    IF el.id # "" THEN Selector("id", "", el.id, "", << >>, 0)
    ELSE IF el.name # "" THEN Selector("attrName", "", el.name, "", << >>, 0)
    ELSE Selector("tagType", el.tag, TypeOf(el), "", << >>, 0)

\* A Candidate Field: its selector and the element it was derived from.
Field(sel, i) == [selector |-> sel, element |-> i]

RECURSIVE Concat(_)
Concat(ss) == IF ss = << >> THEN << >> ELSE Head(ss) \o Concat(Tail(ss))

\* First pass of the hierarchical survey: the inputs of the question
\* container that are not hidden, get a selector and have an option label.
QuestionFields(d, ps) ==
    Concat([i \in DOMAIN d |->
              IF /\ ParentOf(ps, d[i]).option
                 /\ TypeOf(d[i]) # "hidden"
                 /\ generateSelector(d[i], ps).kind # "empty"
                 /\ Trim(ParentOf(ps, d[i]).label) # << >>
                THEN << Field(generateSelector(d[i], ps), i) >>
                ELSE << >>])

\* Second pass: every input that is not hidden and whose selector the first
\* pass did not produce, under a label that is never empty.
StandaloneFields(d, ps) ==
    LET processedInputs ==
          {QuestionFields(d, ps)[k].selector : k \in DOMAIN QuestionFields(d, ps)}
    IN  Concat([i \in DOMAIN d |->
                  IF /\ TypeOf(d[i]) # "hidden"
                     /\ generateSelector(d[i], ps) \notin processedInputs
                    THEN << Field(generateSelector(d[i], ps), i) >>
                    ELSE << >>])

\* The fields of the three surveys.  The flat survey skips hidden inputs; the
\* detailed survey skips elements that are not visible, which hidden inputs
\* never are.
scrapeFormFields(s, d, ps) ==
    CASE s = "hierarchical" -> QuestionFields(d, ps) \o StandaloneFields(d, ps)
      [] s = "flat" ->
           Concat([i \in DOMAIN d |->
                     IF TypeOf(d[i]) # "hidden"
                       THEN << Field(FlatSelector(d[i], i - 1), i) >>
                       ELSE << >>])
      [] s = "detailed" ->
           Concat([i \in DOMAIN d |->
                     IF TypeOf(d[i]) # "hidden"
                       THEN << Field(DetailedSelector(d[i]), i) >>
                       ELSE << >>])

\* The position of element i among the siblings of its tag: what
\* :nth-of-type counts.
NthOfType(d, i) ==
    Cardinality({j \in 1..i : d[j].parent = d[i].parent /\ d[j].tag = d[i].tag})

\* Whether element i of the form matches the selector.  [attr="x"] needs the
\* attribute to be there; the empty selector matches nothing.
SelectorMatches(d, ps, i, sel) ==
    LET el == d[i] IN
    CASE sel.kind = "id" -> el.id # "" /\ el.id = sel.a
      [] sel.kind = "nameValue" ->
           /\ el.tag = "input"
           /\ el.name # "" /\ el.name = sel.a
           /\ el.value # "" /\ el.value = sel.b
      [] sel.kind = "optionText" ->
           /\ el.tag = "input" /\ el.type = "checkbox"
           /\ ParentOf(ps, el).option
           /\ Includes(ToLowerCase(ParentOf(ps, el).label), ToLowerCase(sel.text))
      [] sel.kind = "inputName" -> el.tag = "input" /\ el.name # "" /\ el.name = sel.a
      [] sel.kind = "anyName" -> el.name # "" /\ el.name = sel.a
      [] sel.kind = "tagName" -> el.tag = sel.tag /\ el.name # "" /\ el.name = sel.a
      [] sel.kind = "nthOfType" -> el.tag = sel.tag /\ NthOfType(d, i) = sel.n
      [] sel.kind = "attrName" -> el.name # "" /\ el.name = sel.a
      [] sel.kind = "tagType" -> el.tag = sel.tag /\ el.type # "" /\ el.type = sel.a
      [] sel.kind = "empty" -> FALSE

\* document.querySelector(sel) / page.locator(sel).first(): the first match
\* in DOM order, if any.
QuerySelector(d, ps, sel) ==
    IF \E i \in DOMAIN d : SelectorMatches(d, ps, i, sel)
      THEN CHOOSE i \in DOMAIN d :
             /\ SelectorMatches(d, ps, i, sel)
             /\ \A j \in DOMAIN d : SelectorMatches(d, ps, j, sel) => i <= j
      ELSE NoElement

NoSurvey ==
    /\ surveyor = "none"
    /\ form = << >>
    /\ parents = [p \in ParentIds |-> FormRoot]
    /\ fields = NotSurveyed
    /\ block = << >>
    /\ questionType = "none"

MaxBlockInputs == 2    \* child inputs of a question block

\* The inputs a question block may hold, by tag and type attribute ("": the
\* attribute is absent, as on every textarea and select).
BlockInputs ==
    [tag : {"input"},
     type : {"", "text", "email", "tel", "number", "radio", "checkbox", "hidden"}]
    \cup [tag : {"textarea", "select"}, type : {""}]

Blocks == UNION { [1..n -> BlockInputs] : n \in 1..MaxBlockInputs }

\* questionType of a question block, from its inputs: the type attributes
\* (text where absent) decide first, the tags textarea and select after them.
questionTypeOf(inputs) ==
    LET inputTypes == { IF inputs[i].type = "" THEN "text" ELSE inputs[i].type :
                          i \in DOMAIN inputs }
    IN  IF "radio" \in inputTypes THEN "radio"
        ELSE IF "checkbox" \in inputTypes THEN "checkbox"
        ELSE IF "text" \in inputTypes \/ "email" \in inputTypes \/ "tel" \in inputTypes
          THEN "text"
        ELSE IF \E i \in DOMAIN inputs : inputs[i].tag = "textarea" THEN "textarea"
        ELSE IF \E i \in DOMAIN inputs : inputs[i].tag = "select" THEN "select"
        ELSE "text"

\* The classification step of the question-block pass.
ClassifyQuestion ==
    /\ block # << >>
    /\ questionType = "none"
    /\ questionType' = questionTypeOf(block)
    /\ UNCHANGED << block, runVars, apiVars, surveyVars, reconcileVars, scraperVars >>

\* One call of the survey on the page: a single page.evaluate for the
\* hierarchical and flat surveys.
ScrapeFormFields ==
    /\ surveyor # "none"
    /\ fields = NotSurveyed
    /\ fields' = scrapeFormFields(surveyor, form, parents)
    /\ UNCHANGED << surveyor, form, parents, runVars, apiVars, classifyVars, reconcileVars,
                    scraperVars >>

(***************************************************************************)
(* The Selector Reconciler of part_002: normalizeLabel, extractKeywords,   *)
(* hasCommonKeywords, calculateMatchConfidence, findMatchingField and      *)
(* matchLabelsToSelectors.  Labels are character sequences.                *)
(***************************************************************************)
MaxFieldList == 2    \* surveyed fields handed to the reconciler

\* \w of a regular expression
WordChars ==
    {"a","b","c","d","e","f","g","h","i","j","k","l","m","n","o","p","q","r","s","t",
     "u","v","w","x","y","z","A","B","C","D","E","F","G","H","I","J","K","L","M","N",
     "O","P","Q","R","S","T","U","V","W","X","Y","Z","0","1","2","3","4","5","6","7",
     "8","9","_"}

\* .replace(/\s*\*\s*$/, ''): a trailing asterisk goes, with the whitespace
\* around it.
StripTrailingAsterisk(s) ==
    LET t == TrimEnd(s) IN
    IF t # << >> /\ t[Len(t)] = "*" THEN TrimEnd(SubSeq(t, 1, Len(t) - 1)) ELSE s

\* .replace(/[^\w\s]/g, '')
StripSpecialChars(s) == SelectSeq(s, LAMBDA c : c \in WordChars \/ c = " ")

normalizeLabel(label) ==
    Trim(StripSpecialChars(StripTrailingAsterisk(ToLowerCase(label))))

\* label.split(/\s+/) without the empty strings, which the length filter of
\* extractKeywords drops anyway
RECURSIVE SplitWords(_, _)
SplitWords(s, word) ==
    IF s = << >> THEN (IF word = << >> THEN << >> ELSE << word >>)
    ELSE IF Head(s) = " "
      THEN (IF word = << >> THEN << >> ELSE << word >>) \o SplitWords(Tail(s), << >>)
      ELSE SplitWords(Tail(s), Append(word, Head(s)))

\* The entries of commonWords that are longer than 2 characters; the shorter
\* ones never pass the length filter.
commonWords ==
    { <<"t","h","e">>, <<"a","n","d">>, <<"b","u","t">>, <<"f","o","r">>,
      <<"w","i","t","h">> }

extractKeywords(label) ==
    SelectSeq(SplitWords(label, << >>), LAMBDA w : Len(w) > 2 /\ w \notin commonWords)

\* k1.includes(k2) || k2.includes(k1)
Overlap(k1, k2) == Includes(k1, k2) \/ Includes(k2, k1)

hasCommonKeywords(keywords1, keywords2) ==
    \E i \in DOMAIN keywords1 : \E j \in DOMAIN keywords2 :
      Overlap(keywords1[i], keywords2[j])

\* 0 / 0
NaN == [type |-> "NaN", chars |-> << >>, n |-> 0]

\* a / b in hundredths, rounded down
Ratio(a, b) == IF b = 0 THEN NaN ELSE Num((a * 100) \div b)

Max(a, b) == IF a >= b THEN a ELSE b

\* A scorer without the containment case.
calculateMatchConfidenceKeywordsOnly(label, fieldLabel) ==
    LET normalizedGemini == normalizeLabel(label)
        normalizedField == normalizeLabel(fieldLabel)
        geminiKeywords == extractKeywords(normalizedGemini)
        fieldKeywords == extractKeywords(normalizedField)
        commonKeywords ==
          SelectSeq(geminiKeywords,
                    LAMBDA k1 : \E j \in DOMAIN fieldKeywords : Overlap(k1, fieldKeywords[j]))
    IN  IF normalizedGemini = normalizedField THEN Num(100)
        ELSE Ratio(Len(commonKeywords), Max(Len(geminiKeywords), Len(fieldKeywords)))

\* A scorer that rates a containment like an exact match.
calculateMatchConfidenceFlat(label, fieldLabel) ==
    LET normalizedGemini == normalizeLabel(label)
        normalizedField == normalizeLabel(fieldLabel)
    IN  IF \/ Includes(normalizedGemini, normalizedField)
           \/ Includes(normalizedField, normalizedGemini)
          THEN Num(100)
          ELSE Num(0)

calculateMatchConfidence(label, fieldLabel) ==
    LET normalizedGemini == normalizeLabel(label)
        normalizedField == normalizeLabel(fieldLabel)
        geminiKeywords == extractKeywords(normalizedGemini)
        fieldKeywords == extractKeywords(normalizedField)
        commonKeywords ==
          SelectSeq(geminiKeywords,
                    LAMBDA k1 : \E j \in DOMAIN fieldKeywords : Overlap(k1, fieldKeywords[j]))
    IN  IF normalizedGemini = normalizedField THEN Num(100)
        ELSE IF \/ Includes(normalizedGemini, normalizedField)
                \/ Includes(normalizedField, normalizedGemini)
          THEN Num(80)
        ELSE Ratio(Len(commonKeywords), Max(Len(geminiKeywords), Len(fieldKeywords)))

\* The first of the positions in hits, or NoElement when there is none: a
\* loop over the list that returns at its first hit.
FirstField(hits) ==
    IF hits # { }
      THEN CHOOSE i \in hits : \A j \in hits : i <= j
      ELSE NoElement

\* A matcher that pairs an instruction no field matches with the first field.
findMatchingFieldOrFirst(label, list) ==
    IF list = << >> THEN NoElement
    ELSE LET normalizedGeminiLabel == normalizeLabel(label)
             any(f) ==
               \/ Includes(normalizeLabel(f), normalizedGeminiLabel)
               \/ Includes(normalizedGeminiLabel, normalizeLabel(f))
               \/ hasCommonKeywords(extractKeywords(normalizedGeminiLabel),
                                    extractKeywords(normalizeLabel(f)))
         IN  IF FirstField({ i \in DOMAIN list : any(list[i]) }) # NoElement
               THEN FirstField({ i \in DOMAIN list : any(list[i]) })
               ELSE 1

\* A single pass that returns the first field matching by any rule.
findMatchingFieldSinglePass(label, list) ==
    LET normalizedGeminiLabel == normalizeLabel(label)
        any(f) ==
          \/ normalizeLabel(f) = normalizedGeminiLabel
          \/ Includes(normalizeLabel(f), normalizedGeminiLabel)
          \/ Includes(normalizedGeminiLabel, normalizeLabel(f))
          \/ hasCommonKeywords(extractKeywords(normalizedGeminiLabel),
                               extractKeywords(normalizeLabel(f)))
    IN  FirstField({ i \in DOMAIN list : any(list[i]) })

\* A pass over the list per rule: exact, then partial, then keywords.  The
\* result is the position of the field returned, NoElement for null.
findMatchingField(label, list) ==
    LET normalizedGeminiLabel == normalizeLabel(label)
        exact(f) == normalizeLabel(f) = normalizedGeminiLabel
        partial(f) ==
          \/ Includes(normalizeLabel(f), normalizedGeminiLabel)
          \/ Includes(normalizedGeminiLabel, normalizeLabel(f))
        keyword(f) ==
          hasCommonKeywords(extractKeywords(normalizedGeminiLabel),
                            extractKeywords(normalizeLabel(f)))
        exactHits == { i \in DOMAIN list : exact(list[i]) }
        partialHits == { i \in DOMAIN list : partial(list[i]) }
        keywordHits == { i \in DOMAIN list : keyword(list[i]) }
    IN  IF FirstField(exactHits) # NoElement THEN FirstField(exactHits)
        ELSE IF FirstField(partialHits) # NoElement THEN FirstField(partialHits)
        ELSE FirstField(keywordHits)

TxtFirstName == <<"F","i","r","s","t"," ","N","a","m","e">>
TxtFirstNameStar == <<"f","i","r","s","t"," ","n","a","m","e"," ","*">>
TxtName == <<"N","a","m","e">>
TxtLastName == <<"L","a","s","t"," ","N","a","m","e">>
TxtNameFirst == <<"N","a","m","e"," ","F","i","r","s","t">>
TxtEMail == <<"E","-","m","a","i","l">>
TxtEmail == <<"E","m","a","i","l">>
TxtTheOf == <<"t","h","e"," ","o","f">>
TxtID == <<"I","D">>
TxtYourName == <<"Y","o","u","r"," ","n","a","m","e","?">>
TxtNameNickname == <<"N","a","m","e"," ","/"," ","N","i","c","k","n","a","m","e">>

\* Label texts of surveyed fields, and label texts the generator may return.
FieldLabels == {TxtFirstName, TxtName, TxtLastName, TxtNameFirst, TxtEmail, TxtEmpty}
Labels ==
    FieldLabels \cup {TxtFirstNameStar, TxtEMail, TxtTheOf, TxtID, TxtYourName,
                     TxtNameNickname}

FieldLists == UNION { [1..n -> FieldLabels] : n \in 0..MaxFieldList }

\* labelText of an instruction that has none
NoLabel == << "undefined" >>

NoReconciliation ==
    /\ pair = << >>
    /\ pairConfidence = Undefined
    /\ formFields = << >>
    /\ matchPc = "idle"
    /\ instrNo = 0
    /\ geminiLabel = NoLabel
    /\ matchingField = NoElement
    /\ matchConfidence = Undefined
    /\ matched = << >>
    /\ actuatorInput = NotSurveyed

\* calculateMatchConfidence applied to a pair of labels.
CalculateMatchConfidence ==
    /\ pair # << >>
    /\ pairConfidence = Undefined
    /\ pairConfidence' = calculateMatchConfidence(pair[1], pair[2])
    /\ UNCHANGED << pair, formFields, matchPc, instrNo, geminiLabel, matchingField,
                    matchConfidence, matched, actuatorInput >>
    /\ UNCHANGED << runVars, apiVars, surveyVars, classifyVars, scraperVars >>

\* One iteration of the loop of matchLabelsToSelectors over the generator's
\* instructions: the instruction is pushed with its field's selector and the
\* match confidence, or logged and left out.  An instruction whose labelText
\* is not a string makes normalizeLabel throw a TypeError, which ends
\* matchLabelsToSelectors and reaches the catch block of autoApplyToJob.
MatchIteration ==
    /\ matchPc = "loop"
    /\ instrNo < MaxInstr
    /\ instrNo' = instrNo + 1
    /\ \E label \in Labels \cup {NoLabel} :
         /\ geminiLabel' = label
         /\ IF label = NoLabel
              THEN /\ matchPc' = "threw"
                   /\ matchingField' = NoElement
                   /\ matchConfidence' = Undefined
                   /\ UNCHANGED matched
              ELSE LET field == findMatchingField(label, formFields) IN
                   /\ matchPc' = "loop"
                   /\ matchingField' = field
                   /\ IF field # NoElement
                        THEN /\ matchConfidence' =
                                  calculateMatchConfidence(label, formFields[field])
                             /\ matched' = Append(matched,
                                             [instr |-> instrNo', labelText |-> label,
                                              field |-> field])
                        ELSE /\ matchConfidence' = Undefined
                             /\ UNCHANGED matched
    /\ UNCHANGED << pair, pairConfidence, formFields, actuatorInput >>
    /\ UNCHANGED << runVars, apiVars, surveyVars, classifyVars, scraperVars >>

\* The list is exhausted (it may be shorter than MaxInstr): the matched
\* instructions are returned and handed to fillFormWithInstructions.
MatchReturn ==
    /\ matchPc = "loop"
    /\ matchPc' = "returned"
    /\ actuatorInput' = matched
    /\ UNCHANGED << pair, pairConfidence, formFields, instrNo, geminiLabel, matchingField,
                    matchConfidence, matched >>
    /\ UNCHANGED << runVars, apiVars, surveyVars, classifyVars, scraperVars >>

(***************************************************************************)
(* The job scraper: the JobScraper singleton of job-scraper.ts with its    *)
(* shared browser, concurrent scrapeJobPosting calls and                   *)
(* cleanupJobScraper.  Calls interleave at their awaits; the code between  *)
(* two awaits of a call runs as one step.                                  *)
(***************************************************************************)
MaxCalls == 2        \* concurrent scrapeJobPosting calls
MaxCleanups == 1     \* cleanupJobScraper calls

CallIds == 1..MaxCalls
NoScraper == 0       \* scraperInstance = null
NoBrowser == 0       \* this.browser = null
NoPageOpen == 0      \* the call holds no open page

\* The scraper before any call: no instance, nothing launched.
NoScraping ==
    /\ scraperInstance = NoScraper
    /\ instances = 0
    /\ scraperBrowser = << >>
    /\ launched = << >>
    /\ callPc = [c \in CallIds |-> "idle"]
    /\ scraper = [c \in CallIds |-> NoScraper]
    /\ callPage = [c \in CallIds |-> NoPageOpen]
    /\ scrapeResult = [c \in CallIds |-> "none"]
    /\ cleanPc = "idle"
    /\ cleanups = 0
    /\ cleanTarget = [scraper |-> NoScraper, browser |-> NoBrowser]

\* chromium.launch() resolves for instance i: a new browser process, which
\* `this.browser = await chromium.launch(...)` stores in the instance
\* whatever it held before.
LaunchResolved(i) ==
    /\ launched' = Append(launched, [scraper |-> i, state |-> "open"])
    /\ scraperBrowser' = [scraperBrowser EXCEPT ![i] = Len(launched) + 1]

\* The catch block of JobScraper.scrapeJobPosting: a failure result; the page
\* the call may have opened is not closed.
ScrapeFailed(c) ==
    /\ callPc' = [callPc EXCEPT ![c] = "done"]
    /\ scrapeResult' = [scrapeResult EXCEPT ![c] = "failure"]

\* scrapeJobPosting(url) up to the first await of getJobScraper: with no
\* instance yet, one is created and its initialize() starts a launch;
\* otherwise the existing instance is returned.
GetJobScraper(c) ==
    /\ callPc[c] = "idle"
    /\ IF scraperInstance = NoScraper
         THEN /\ instances' = instances + 1
              /\ scraperInstance' = instances + 1
              /\ scraperBrowser' = Append(scraperBrowser, NoBrowser)
              /\ scraper' = [scraper EXCEPT ![c] = instances + 1]
              /\ callPc' = [callPc EXCEPT ![c] = "getLaunching"]
         ELSE /\ scraper' = [scraper EXCEPT ![c] = scraperInstance]
              /\ callPc' = [callPc EXCEPT ![c] = "scrape"]
              /\ UNCHANGED << instances, scraperInstance, scraperBrowser >>
    /\ UNCHANGED << launched, callPage, scrapeResult, cleanPc, cleanups, cleanTarget >>
    /\ UNCHANGED << runVars, apiVars, surveyVars, classifyVars, reconcileVars >>

\* The launch started by getJobScraper resolves, or rejects: then
\* getJobScraper and the call reject, outside any try.
GetLaunched(c) ==
    /\ callPc[c] = "getLaunching"
    /\ \/ /\ LaunchResolved(scraper[c])
          /\ callPc' = [callPc EXCEPT ![c] = "scrape"]
          /\ UNCHANGED scrapeResult
       \/ /\ callPc' = [callPc EXCEPT ![c] = "done"]
          /\ scrapeResult' = [scrapeResult EXCEPT ![c] = "rejected"]
          /\ UNCHANGED << launched, scraperBrowser >>
    /\ UNCHANGED << scraperInstance, instances, scraper, callPage, cleanPc, cleanups,
                    cleanTarget >>
    /\ UNCHANGED << runVars, apiVars, surveyVars, classifyVars, reconcileVars >>

\* JobScraper.scrapeJobPosting enters its try and calls initialize(): a
\* launch starts if the instance has no browser at this moment.
ScrapeInitialize(c) ==
    /\ callPc[c] = "scrape"
    /\ callPc' = [callPc EXCEPT ![c] =
                    IF scraperBrowser[scraper[c]] = NoBrowser THEN "initLaunching"
                    ELSE "initialized"]
    /\ UNCHANGED << scraperInstance, instances, scraperBrowser, launched, scraper, callPage,
                    scrapeResult, cleanPc, cleanups, cleanTarget >>
    /\ UNCHANGED << runVars, apiVars, surveyVars, classifyVars, reconcileVars >>

\* The launch started by initialize() resolves, or rejects into the catch.
InitLaunched(c) ==
    /\ callPc[c] = "initLaunching"
    /\ \/ /\ LaunchResolved(scraper[c])
          /\ callPc' = [callPc EXCEPT ![c] = "initialized"]
          /\ UNCHANGED scrapeResult
       \/ /\ ScrapeFailed(c)
          /\ UNCHANGED << launched, scraperBrowser >>
    /\ UNCHANGED << scraperInstance, instances, scraper, callPage, cleanPc, cleanups,
                    cleanTarget >>
    /\ UNCHANGED << runVars, apiVars, surveyVars, classifyVars, reconcileVars >>

\* After initialize(): `if (!this.browser) throw`, then this.browser.newPage(),
\* which throws on a browser that has been closed.
NewScraperPage(c) ==
    /\ callPc[c] = "initialized"
    /\ LET b == scraperBrowser[scraper[c]] IN
       IF b = NoBrowser \/ launched[b].state = "closed"
         THEN /\ ScrapeFailed(c)
              /\ UNCHANGED callPage
         ELSE \/ /\ callPage' = [callPage EXCEPT ![c] = b]
                 /\ callPc' = [callPc EXCEPT ![c] = "page"]
                 /\ UNCHANGED scrapeResult
              \/ /\ ScrapeFailed(c)
                 /\ UNCHANGED callPage
    /\ UNCHANGED << scraperInstance, instances, scraperBrowser, launched, scraper, cleanPc,
                    cleanups, cleanTarget >>
    /\ UNCHANGED << runVars, apiVars, surveyVars, classifyVars, reconcileVars >>

\* Navigation, the settle wait and page.content(): all succeed, the page is
\* closed and the data extracted; or one of them throws (as each does once
\* the page's browser has been closed) and the catch returns a failure.
ScrapePage(c) ==
    /\ callPc[c] = "page"
    /\ \/ /\ callPage[c] # NoPageOpen
          /\ callPage' = [callPage EXCEPT ![c] = NoPageOpen]
          /\ callPc' = [callPc EXCEPT ![c] = "done"]
          /\ scrapeResult' = [scrapeResult EXCEPT ![c] = "success"]
       \/ /\ ScrapeFailed(c)
          /\ UNCHANGED callPage
    /\ UNCHANGED << scraperInstance, instances, scraperBrowser, launched, scraper, cleanPc,
                    cleanups, cleanTarget >>
    /\ UNCHANGED << runVars, apiVars, surveyVars, classifyVars, reconcileVars >>

\* cleanupJobScraper up to its first await: with an instance, close() is
\* called on it, which starts browser.close() if the instance has a browser.
CleanupStart ==
    /\ cleanPc = "idle"
    /\ cleanups < MaxCleanups
    /\ cleanups' = cleanups + 1
    /\ IF scraperInstance = NoScraper
         THEN /\ cleanPc' = "idle"
              /\ UNCHANGED cleanTarget
         ELSE /\ cleanTarget' = [scraper |-> scraperInstance,
                                 browser |-> scraperBrowser[scraperInstance]]
              /\ cleanPc' = IF scraperBrowser[scraperInstance] = NoBrowser
                              THEN "closed" ELSE "closing"
    /\ UNCHANGED << scraperInstance, instances, scraperBrowser, launched, callPc, scraper,
                    callPage, scrapeResult >>
    /\ UNCHANGED << runVars, apiVars, surveyVars, classifyVars, reconcileVars >>

\* browser.close() resolves: the browser and its pages are gone, and
\* `this.browser = null` clears whatever the instance holds now.
BrowserClosed ==
    /\ cleanPc = "closing"
    /\ launched' = [launched EXCEPT ![cleanTarget.browser].state = "closed"]
    /\ callPage' = [c \in CallIds |->
                      IF callPage[c] = cleanTarget.browser THEN NoPageOpen ELSE callPage[c]]
    /\ scraperBrowser' = [scraperBrowser EXCEPT ![cleanTarget.scraper] = NoBrowser]
    /\ cleanPc' = "closed"
    /\ UNCHANGED << scraperInstance, instances, callPc, scraper, scrapeResult, cleanups,
                    cleanTarget >>
    /\ UNCHANGED << runVars, apiVars, surveyVars, classifyVars, reconcileVars >>

\* close() has returned: `scraperInstance = null`.
CleanupEnd ==
    /\ cleanPc = "closed"
    /\ scraperInstance' = NoScraper
    /\ cleanPc' = "idle"
    /\ UNCHANGED << instances, scraperBrowser, launched, callPc, scraper, callPage,
                    scrapeResult, cleanups, cleanTarget >>
    /\ UNCHANGED << runVars, apiVars, surveyVars, classifyVars, reconcileVars >>

(***************************************************************************)
(* The run of autoApplyToJob.                                              *)
(***************************************************************************)
InitRun ==
    /\ variant \in {"direct", "reconciled"}
    /\ options \in [coverLetter : {Undefined, Str(TxtDear)}, reviewBeforeSubmit : BOOLEAN]
    /\ pc = "launch"
    /\ browser = "null"
    /\ result = NoResult
    /\ failedStep = "none"
    /\ threw = FALSE
    /\ dom = << >>
    /\ selIdx = 0
    /\ applyOutcome = "none"
    /\ applyThrew = FALSE
    /\ applyClicked = NoElement
    /\ submitted = FALSE
    /\ viewportHeight = 0
    /\ documentHeight = 0
    /\ currentScroll = 0
    /\ screenshotCount = 0
    /\ scrolledTo = 0
    /\ analysis = NoResult
    /\ rawResponse = "none"
    /\ remaining = 0
    /\ instruction = NoInstruction
    /\ calls = << >>
    /\ page = NoPage
    /\ failed = FALSE
    /\ failedBefore = FALSE
    /\ acted = FALSE

Init ==
    /\ InitRun
    /\ apps = InitApps
    /\ lastOp = NoResult
    /\ runSubmitted = FALSE
    /\ NoSurvey
    /\ NoReconciliation
    /\ NoScraping

Next ==
    \/ Launch
    \/ NewPage
    \/ Goto
    \/ ApplyIteration
    \/ ApplyNoButton
    \/ CaptureStart
    \/ ShotIteration
    \/ ShotLoopExit
    \/ CaptureReturn
    \/ Survey
    \/ Analyze
    \/ Match
    \/ FillIteration
    \/ FillIterationEnd
    \/ FillReturn

Spec == Init /\ [][Next]_vars

\* captureFormScreenshots on its own: autoApplyToJob has come through the
\* apply-button search on a page without a button and is about to call it.
\* Every await of the function settles, so a step that can be taken is
\* eventually taken.
InitShots ==
    /\ variant \in {"direct", "reconciled"}
    /\ options = [coverLetter |-> Undefined, reviewBeforeSubmit |-> TRUE]
    /\ pc = "applied"
    /\ browser = "open"
    /\ result = NoResult
    /\ failedStep = "none"
    /\ threw = FALSE
    /\ dom = << >>
    /\ selIdx = Len(applyButtonSelectors) + 1
    /\ applyOutcome = "notVisible"
    /\ applyThrew = FALSE
    /\ applyClicked = NoElement
    /\ submitted = FALSE
    /\ viewportHeight = 0
    /\ documentHeight = 0
    /\ currentScroll = 0
    /\ screenshotCount = 0
    /\ scrolledTo = 0
    /\ analysis = NoResult
    /\ rawResponse = "none"
    /\ remaining = 0
    /\ instruction = NoInstruction
    /\ calls = << >>
    /\ page = NoPage
    /\ failed = FALSE
    /\ failedBefore = FALSE
    /\ acted = FALSE
    /\ apps = InitApps
    /\ lastOp = NoResult
    /\ runSubmitted = FALSE
    /\ NoSurvey
    /\ NoReconciliation
    /\ NoScraping

NextShots ==
    \/ CaptureStart
    \/ ShotIteration
    \/ ShotLoopExit
    \/ CaptureReturn

SpecShots == InitShots /\ [][NextShots]_vars /\ WF_vars(NextShots)

\* The API seen by two signed-in users; no browser run is in progress.
NextApi ==
    \/ RestAutoApply
    \/ RestDetectFormFields
    \/ RestGenerateCoverLetter
    \/ RestUpdateStatus
    \/ GenerateCoverLetter
    \/ UpdateApplication
    \/ DetectFormFields
    \/ AutoApply
    \/ UpdateSubmissionStatus

\* Auto-apply requests only, through the REST route and through tRPC.
NextAutoApply ==
    \/ RestAutoApply
    \/ AutoApply

InitApi ==
    /\ Init
    /\ variant = "direct"
    /\ options = [coverLetter |-> Undefined, reviewBeforeSubmit |-> TRUE]

SpecApi == InitApi /\ [][NextApi]_vars

SpecAutoApply == InitApi /\ [][NextAutoApply]_vars

\* A survey of one form; no browser run or request is in progress.
InitSurvey ==
    /\ InitRun
    /\ variant = "direct"
    /\ options = [coverLetter |-> Undefined, reviewBeforeSubmit |-> TRUE]
    /\ apps = InitApps
    /\ lastOp = NoResult
    /\ runSubmitted = FALSE
    /\ surveyor \in {"hierarchical", "flat", "detailed"}
    /\ form \in Forms
    /\ parents \in {ps \in [ParentIds -> ParentKinds] : ps[1] = [label |-> TxtYes, option |-> TRUE]}
    /\ fields = NotSurveyed
    /\ block = << >>
    /\ questionType = "none"
    /\ NoReconciliation
    /\ NoScraping

NextSurvey == ScrapeFormFields

SpecSurvey == InitSurvey /\ [][NextSurvey]_vars

\* The classification of one question block of the hierarchical survey.
InitClassify ==
    /\ InitRun
    /\ variant = "direct"
    /\ options = [coverLetter |-> Undefined, reviewBeforeSubmit |-> TRUE]
    /\ apps = InitApps
    /\ lastOp = NoResult
    /\ runSubmitted = FALSE
    /\ surveyor = "hierarchical"
    /\ form = << >>
    /\ parents = [p \in ParentIds |-> FormRoot]
    /\ fields = NotSurveyed
    /\ block \in Blocks
    /\ questionType = "none"
    /\ NoReconciliation
    /\ NoScraping

NextClassify == ClassifyQuestion

SpecClassify == InitClassify /\ [][NextClassify]_vars

\* The scraper singleton under concurrent calls.
InitScraper ==
    /\ InitRun
    /\ variant = "direct"
    /\ options = [coverLetter |-> Undefined, reviewBeforeSubmit |-> TRUE]
    /\ apps = InitApps
    /\ lastOp = NoResult
    /\ runSubmitted = FALSE
    /\ NoSurvey
    /\ NoReconciliation
    /\ NoScraping

NextScraper ==
    \/ \E c \in CallIds : GetJobScraper(c)
    \/ \E c \in CallIds : GetLaunched(c)
    \/ \E c \in CallIds : ScrapeInitialize(c)
    \/ \E c \in CallIds : InitLaunched(c)
    \/ \E c \in CallIds : NewScraperPage(c)
    \/ \E c \in CallIds : ScrapePage(c)
    \/ CleanupStart
    \/ BrowserClosed
    \/ CleanupEnd

SpecScraper == InitScraper /\ [][NextScraper]_vars

\* The reconciler at work: a pair of labels to score, or a list of surveyed
\* fields to match the generator's instructions against.
InitMatch ==
    /\ InitRun
    /\ variant = "reconciled"
    /\ options = [coverLetter |-> Undefined, reviewBeforeSubmit |-> TRUE]
    /\ apps = InitApps
    /\ lastOp = NoResult
    /\ runSubmitted = FALSE
    /\ NoSurvey
    /\ pairConfidence = Undefined
    /\ instrNo = 0
    /\ geminiLabel = NoLabel
    /\ matchingField = NoElement
    /\ matchConfidence = Undefined
    /\ matched = << >>
    /\ actuatorInput = NotSurveyed
    /\ NoScraping
    /\ \/ /\ pair \in Labels \X Labels
          /\ formFields = << >>
          /\ matchPc = "idle"
       \/ /\ pair = << >>
          /\ formFields \in FieldLists
          /\ matchPc = "loop"

NextMatch ==
    \/ CalculateMatchConfidence
    \/ MatchIteration
    \/ MatchReturn

SpecMatch == InitMatch /\ [][NextMatch]_vars

(***************************************************************************)
(* Properties of the fill pass.                                            *)
(***************************************************************************)
\* The instruction of the current iteration passes every gate of the loop body.
PassesGates ==
    /\ instruction.value \in {Str(TxtJane), Str(Sentinel)}
    /\ instruction.confidence \in {Undefined, Num(50)}
    /\ variant = "reconciled" => instruction.matchConfidence = Num(80)
    /\ instruction.action \in ActionKinds

\* C1: an instruction whose confidence is below 0.5 (50 hundredths), or, in the
\* reconciled variant, whose match confidence is below 0.5, causes no clear,
\* fill, click or selectOption call on the page, whatever its action, value and
\* selector and whatever came before it in the list.
C1_LowConfidenceNeverActs ==
    (/\ instruction # NoInstruction
     /\ \/ instruction.confidence.type = "number" /\ instruction.confidence.n < 50
        \/ /\ variant = "reconciled"
           /\ instruction.matchConfidence.type = "number"
           /\ instruction.matchConfidence.n < 50)
    => \A i \in DOMAIN calls : calls[i].op \notin {"clear", "fill", "click", "selectOption"}

\* A low-confidence instruction with a usable value came up after an earlier
\* instruction had acted on the page, and nothing was called for it.
C1_Witness ==
    /\ instruction.confidence = Num(30)
    /\ instruction.value = Str(TxtJane)
    /\ instruction.action = "click"
    /\ calls = << >>
    /\ acted

\* C2 (as stated): the literal sentinel text is never passed to any page
\* action, for any action kind.
C2_SentinelNeverPassed ==
    \A i \in DOMAIN calls : calls[i].arg # Sentinel

\* C2 (amended): for a `fill` instruction whose value is the sentinel, the text
\* passed to fill() is the caller's cover letter, or the empty string when the
\* caller supplied none, and the sentinel is never passed to clear() or fill();
\* for a `select` instruction the value goes to selectOption() as it is, the
\* sentinel included.
C2_SentinelSubstitutedOnFill ==
    \A i \in DOMAIN calls :
      /\ calls[i].op \in {"clear", "fill"} => calls[i].arg # Sentinel
      /\ (calls[i].op = "fill" /\ instruction.value = Str(Sentinel))
           => calls[i].arg = (IF options.coverLetter.type = "string"
                                THEN options.coverLetter.chars ELSE << >>)
      /\ (calls[i].op = "selectOption" /\ instruction.value = Str(Sentinel))
           => calls[i].arg = Sentinel

\* A sentinel-valued fill instruction wrote the supplied cover letter.
C2_Witness ==
    /\ instruction.value = Str(Sentinel)
    /\ instruction.action = "fill"
    /\ options.coverLetter = Str(TxtDear)
    /\ \E i \in DOMAIN calls :
         calls[i].op = "fill" /\ calls[i].ok /\ calls[i].arg = TxtDear

C8_EmptyValueNeverActs ==
    (/\ instruction # NoInstruction
     /\ instruction.value \in {Undefined, Str(<< >>), Str(TxtBlank), Str(TxtNA)})
    => calls = << >>

\* A confident fill instruction with a whitespace-only value was skipped.
C8_Witness ==
    /\ instruction.value = Str(TxtBlank)
    /\ instruction.confidence = Num(50)
    /\ instruction.action = "fill"
    /\ variant = "direct"
    /\ calls = << >>

(***************************************************************************)
(* Properties of the run.                                                  *)
(***************************************************************************)
\* Responses that contain no JSON object, cannot be parsed, or have no
\* `instructions` array.
MalformedResponses ==
    {"noJsonObject", "unparseable", "noInstructionsKey", "instructionsNotArray"}

\* C4: on a malformed response analyzeFormScreenshots returns success=false
\* with an error message and an empty list, autoApplyToJob returns
\* success=false carrying that error, and the fill pass performs no fill,
\* click or select action (the apply-button click precedes the analysis and is
\* not an action of an instruction).
C4_MalformedResponseIsFatal ==
    rawResponse \in MalformedResponses =>
      /\ analysis.success = FALSE
      /\ analysis.error # ""
      /\ analysis.instructions = 0
      /\ pc = "done"
      /\ result.success = FALSE
      /\ result.error = analysis.error
      /\ ~acted
      /\ calls = << >>

\* A run ended on a response that could not be parsed.
C4_Witness ==
    /\ rawResponse = "unparseable"
    /\ pc = "done"
    /\ result.success = FALSE

\* C5 (as stated): no step of the run clicks a form-submission control, and a
\* successful run ends with the browser still open.
C5_NoAutoSubmit ==
    /\ ~submitted
    /\ (pc = "done" /\ result.success) => browser = "open"

C9_AtMostTenScreenshots == screenshotCount <= 10

(***************************************************************************)
(* Properties of the apply-button search.                                  *)
(***************************************************************************)
\* Elements of page d that match sel and are visible.
VisibleMatches(d, sel) == {i \in DOMAIN d : Matches(d[i].kind, sel) /\ d[i].visible}

\* The first pattern of the list that has a visible element on page d, if any.
FirstPatternWithVisible(d, sels) ==
    IF \E p \in DOMAIN sels : VisibleMatches(d, sels[p]) # {}
      THEN CHOOSE p \in DOMAIN sels :
             /\ VisibleMatches(d, sels[p]) # {}
             /\ \A q \in DOMAIN sels : VisibleMatches(d, sels[q]) # {} => p <= q
      ELSE 0

\* The first pattern of the list whose first match in DOM order is visible.
FirstPatternWithVisibleFirstMatch(d, sels) ==
    IF \E p \in DOMAIN sels : IsVisible(d, LocatorFirst(d, sels[p]))
      THEN CHOOSE p \in DOMAIN sels :
             /\ IsVisible(d, LocatorFirst(d, sels[p]))
             /\ \A q \in DOMAIN sels : IsVisible(d, LocatorFirst(d, sels[q])) => p <= q
      ELSE 0

HasKind(d, text) == \E i \in DOMAIN d : d[i].kind.text = text

C6_UserIsolation ==
    lastOp # NoResult =>
      \A a \in lastOp.ran \cup lastOp.wrote : apps[a].userId = lastOp.user

(***************************************************************************)
(* Failures of the apply-button search.                                    *)
(***************************************************************************)
\* C11: a visibility check or click that throws leaves the search running
\* with the next pattern; the search never fails the run; when the list is
\* exhausted without a click clickApplyButton has returned normally, nothing
\* was clicked, and the run is still under way, at the screenshot capture.
C11_ApplyFailuresNonFatal ==
    /\ failedStep # "apply"
    /\ (pc = "apply" /\ applyOutcome \in {"visibleThrew", "clickThrew"})
         => (selIdx > 1 /\ result = NoResult /\ applyClicked = NoElement)
    /\ applyThrew => pc \in {"apply", "applied"}
    /\ pc = "applied" => (result = NoResult /\ failedStep = "none")
    /\ (pc = "applied" /\ selIdx > Len(applyButtonSelectors))
         => (applyClicked = NoElement /\ ~submitted)

\* Every pattern was tried, some call threw on the way, nothing was clicked
\* and clickApplyButton returned.
C11_Witness ==
    /\ pc = "applied"
    /\ applyThrew
    /\ selIdx > Len(applyButtonSelectors)
    /\ applyClicked = NoElement
    /\ Len(dom) > 0

(***************************************************************************)
(* Properties of the surveys' selectors.                                   *)
(***************************************************************************)
\* C12 (as stated): every Candidate Field whose element has a non-empty id,
\* of any input type, has the selector "#" followed by that id.
C12_IdSelector ==
    fields # NotSurveyed =>
      \A k \in DOMAIN fields :
        form[fields[k].element].id # ""
          => fields[k].selector = Selector("id", "", form[fields[k].element].id, "", << >>, 0)

\* C13 (as stated): two radio or checkbox Candidate Fields that share a name
\* and have distinct value attributes have different selectors.
C13_DistinctOptionSelectors ==
    fields # NotSurveyed =>
      \A j, k \in DOMAIN fields :
        LET e1 == form[fields[j].element]
            e2 == form[fields[k].element]
        IN  (/\ e1.type \in {"radio", "checkbox"}
             /\ e2.type = e1.type
             /\ e1.name # "" /\ e1.name = e2.name
             /\ e1.value # e2.value)
            => fields[j].selector # fields[k].selector

\* C14 (as stated): the first match of every Candidate Field's selector in
\* the unchanged DOM is the element the field was derived from.
C14_SelectorResolvesToSource ==
    fields # NotSurveyed =>
      \A k \in DOMAIN fields :
        QuerySelector(form, parents, fields[k].selector) = fields[k].element
\* C15: calculateMatchConfidence returns 1.0 when the normalized labels are
\* identical (so also for identical inputs), 0.8 when they differ and one
\* contains the other, and otherwise the number of generator keywords that
\* overlap a field keyword divided by the size of the larger keyword list
\* (not a number when neither label has a keyword, which no pairing made by
\* matchLabelsToSelectors produces); a containment never scores higher than
\* an exact match.
OverlappingKeywords(a, b) ==
    Cardinality({ i \in DOMAIN extractKeywords(a) :
                    \E j \in DOMAIN extractKeywords(b) :
                      Overlap(extractKeywords(a)[i], extractKeywords(b)[j]) })

LargerKeywordSet(a, b) ==
    IF Len(extractKeywords(a)) >= Len(extractKeywords(b))
      THEN Len(extractKeywords(a)) ELSE Len(extractKeywords(b))

KeywordsOf(label) ==
    { extractKeywords(normalizeLabel(label))[i] :
        i \in DOMAIN extractKeywords(normalizeLabel(label)) }

ExactMatches ==
    { i \in DOMAIN formFields : normalizeLabel(formFields[i]) = normalizeLabel(geminiLabel) }

ContainmentMatches ==
    { i \in DOMAIN formFields :
        \/ Includes(normalizeLabel(formFields[i]), normalizeLabel(geminiLabel))
        \/ Includes(normalizeLabel(geminiLabel), normalizeLabel(formFields[i])) }

KeywordMatches ==
    { i \in DOMAIN formFields :
        \E k1 \in KeywordsOf(geminiLabel) :
          \E k2 \in KeywordsOf(formFields[i]) :
            Includes(k1, k2) \/ Includes(k2, k1) }

Least(S) == CHOOSE i \in S : \A j \in S : i <= j

C16_MatchOrder ==
    (matchPc \in {"loop", "returned"} /\ instrNo > 0) =>
      /\ ExactMatches # {} => matchingField = Least(ExactMatches)
      /\ (ExactMatches = {} /\ ContainmentMatches # {})
            => matchingField = Least(ContainmentMatches)
      /\ (ExactMatches = {} /\ ContainmentMatches = {} /\ KeywordMatches # {})
            => matchingField = Least(KeywordMatches)
      /\ matchingField = NoElement
            <=> (ExactMatches \cup ContainmentMatches \cup KeywordMatches) = {}

C16_Witness ==
    /\ matchPc = "loop"
    /\ geminiLabel = TxtFirstNameStar
    /\ formFields = << TxtName, TxtFirstName >>
    /\ matchingField = 2


\* C17: an instruction that carries a label and that no Candidate Field
\* matches is left out of the output of matchLabelsToSelectors and the loop
\* goes on; the output holds at most one entry per input instruction, in the
\* original order, each paired with a field that matches its label; the list
\* handed to the Actuator is that output.  An instruction without a label
\* ends matchLabelsToSelectors with a TypeError and nothing is handed over.
MatchesSomeField(label) ==
    \E i \in DOMAIN formFields :
      \/ Includes(normalizeLabel(formFields[i]), normalizeLabel(label))
      \/ Includes(normalizeLabel(label), normalizeLabel(formFields[i]))
      \/ \E k1 \in KeywordsOf(label) : \E k2 \in KeywordsOf(formFields[i]) :
            Includes(k1, k2) \/ Includes(k2, k1)

LastInstructionUnmatched ==
    /\ instrNo > 0
    /\ geminiLabel # NoLabel
    /\ ~MatchesSomeField(geminiLabel)

WellFormedOutput(out) ==
    /\ Len(out) <= instrNo
    /\ \A i \in DOMAIN out :
         /\ out[i].instr \in 1..instrNo
         /\ out[i].field \in DOMAIN formFields
         /\ MatchesSomeField(out[i].labelText)
    /\ \A i, j \in DOMAIN out : i < j => out[i].instr < out[j].instr

C17_UnmatchedDropped ==
    /\ LastInstructionUnmatched =>
         /\ matchPc \in {"loop", "returned"}
         /\ \A i \in DOMAIN matched : matched[i].instr # instrNo
    /\ matchPc # "idle" => WellFormedOutput(matched)
    /\ actuatorInput # NotSurveyed => (matchPc = "returned" /\ actuatorInput = matched)
    /\ matchPc = "threw" => (geminiLabel = NoLabel /\ actuatorInput = NotSurveyed)

\* C17 as stated: whenever no field matches the instruction, it is dropped
\* and the run continues.
C17_NoMatchNeverFatal ==
    (instrNo > 0 /\ matchingField = NoElement) => matchPc \in {"loop", "returned"}

C17_Witness ==
    /\ matchPc = "returned"
    /\ instrNo = 2
    /\ LastInstructionUnmatched
    /\ Len(actuatorInput) = 1
    /\ actuatorInput[1].instr = 1


\* C18: every instruction for which clear, fill, click or selectOption is
\* called carries an action among fill, click and select, a non-empty value,
\* a selector and a numeric confidence of at least 0.5 (and, in the
\* reconciled variant, a numeric match confidence of at least 0.5); so an
\* instruction whose confidence is missing or not a number, or whose action
\* is none of the three, causes no such call.
ActedOn == \E i \in DOMAIN calls : calls[i].op \in ActuatorOps

C18_CompleteInstructionsOnly ==
    (instruction # NoInstruction /\ ActedOn) =>
      /\ instruction.action \in {"fill", "click", "select"}
      /\ instruction.value.type = "string"
      /\ Trim(instruction.value.chars) # << >>
      /\ instruction.selector # ""
      /\ instruction.confidence.type = "number"
      /\ instruction.confidence.n >= 50
      /\ variant = "reconciled" =>
            (instruction.matchConfidence.type = "number"
               /\ instruction.matchConfidence.n >= 50)


\* C19: when an instruction passes the skip gates and the element its
\* selector locates is not visible, nothing is scrolled, cleared, filled,
\* clicked or selected for it, the iteration does not fail and the loop goes
\* on to the next instruction.
PassedSkipGates ==
    /\ instruction # NoInstruction
    /\ ~SkipsEmptyValue(instruction)
    /\ ~SkipsLowConfidence(instruction)
    /\ ~SkipsLowMatchConfidence(instruction, variant)

C19_InvisibleNotTouched ==
    (PassedSkipGates /\ ~page.visible /\ page.throwAt # "isVisible") =>
      /\ \A i \in DOMAIN calls :
           calls[i].op \notin ActuatorOps \cup {"scrollIntoViewIfNeeded"}
      /\ ~failed
      /\ pc = "fill"
      /\ result = NoResult

C19_Witness ==
    /\ PassedSkipGates
    /\ instruction.action = "fill"
    /\ ~page.visible
    /\ page.throwAt = "none"
    /\ calls = << [op |-> "isVisible", selector |-> instruction.selector,
                   arg |-> << >>, ok |-> TRUE] >>
    /\ acted

\* C20: when an instruction passes the skip gates, its element is visible
\* and scrolling it into view throws, the action is still performed on that
\* element: clear and then fill, click, or selectOption.
ActionOps(action) ==
    CASE action = "fill" -> << "clear", "fill" >>
      [] action = "click" -> << "click" >>
      [] action = "select" -> << "selectOption" >>

C20_ScrollBestEffort ==
    (/\ PassedSkipGates
     /\ instruction.action \in {"fill", "click", "select"}
     /\ page.visible
     /\ page.scrollThrows
     /\ page.throwAt # "isVisible") =>
      /\ Len(calls) >= 3
      /\ calls[2].op = "scrollIntoViewIfNeeded" /\ ~calls[2].ok
      /\ calls[3].op = ActionOps(instruction.action)[1]
      /\ \A i \in 3..Len(calls) : calls[i].selector = instruction.selector
      /\ page.throwAt \in {"none", "fill"} =>
            /\ [i \in 1..(Len(calls) - 2) |-> calls[i + 2].op] = ActionOps(instruction.action)
      /\ page.throwAt = "none" => ~failed
      /\ pc = "fill"

C20_Witness ==
    /\ PassedSkipGates
    /\ instruction.action = "fill"
    /\ page.visible
    /\ page.scrollThrows
    /\ page.throwAt = "none"
    /\ Len(calls) = 4
    /\ ~calls[2].ok
    /\ calls[3].op = "clear" /\ calls[3].ok
    /\ calls[4].op = "fill" /\ calls[4].ok /\ calls[4].arg = TxtJane


\* C21: captureFormScreenshots terminates for every viewport height and
\* document height, a viewport height of 0 included (the scroll position then
\* never advances and the safety check ends the loop); and whenever the loop
\* is about to take a further screenshot, the scroll to the next multiple of
\* the viewport height has completed.
C21_ShotLoopTerminates ==
    /\ [](pc = "shots" =>
            /\ scrolledTo = currentScroll
            /\ currentScroll = screenshotCount * viewportHeight
            /\ screenshotCount <= MaxScreenshots)
    /\ [](screenshotCount <= MaxScreenshots + 1)
    /\ (pc = "shots") ~> (pc \in {"captured", "done"})

C21_Witness ==
    /\ pc = "captured"
    /\ viewportHeight = 0
    /\ documentHeight > 0
    /\ currentScroll = 0
    /\ screenshotCount = MaxScreenshots + 1


\* C22: every pairing made by matchLabelsToSelectors has a match confidence
\* that is a number between 0 and 1, never NaN, whatever the instruction's
\* label and the surveyed fields, labels without keywords included.
C22_MatchConfidenceRange ==
    (matchPc # "idle" /\ matchingField # NoElement) =>
      /\ matchConfidence.type = "number"
      /\ matchConfidence.n \in 0..100

C22_Witness ==
    /\ matchPc = "loop"
    /\ geminiLabel = TxtID
    /\ KeywordsOf(geminiLabel) = { }
    /\ matchingField = 2
    /\ KeywordsOf(formFields[2]) = { }
    /\ matchConfidence = Num(80)


\* C26: findMatchingField never pairs an instruction with a field whose
\* normalized label is empty, nor an instruction whose own normalized label
\* is empty with any field.
C26_NoPairingThroughEmptyLabel ==
    (matchPc # "idle" /\ matchingField # NoElement) =>
      /\ normalizeLabel(formFields[matchingField]) # << >>
      /\ normalizeLabel(geminiLabel) # << >>

\* C30: calculateMatchConfidence gives 1.0 only to labels whose normalized
\* forms are identical, gives a pair matching by keywords alone no more than
\* the 0.8 of a containment, and gives (a, b) and (b, a) the same value.
C30_FullConfidenceExclusiveSymmetric ==
    pairConfidence # Undefined =>
      LET a == normalizeLabel(pair[1])
          b == normalizeLabel(pair[2])
      IN  /\ pairConfidence = Num(100) => a = b
          /\ (a # b /\ ~Includes(a, b) /\ ~Includes(b, a) /\ pairConfidence.type = "number")
                => pairConfidence.n <= 80
          /\ pairConfidence = calculateMatchConfidence(pair[2], pair[1])


\* C23: in the output of the hierarchical survey every element contributes
\* at most one field, and no two fields emitted by the standalone sweep have
\* the same selector.
StandaloneStart == Len(QuestionFields(form, parents)) + 1

C23_EachInputOnce ==
    (surveyor = "hierarchical" /\ fields # NotSurveyed) =>
      /\ \A j, k \in DOMAIN fields :
           fields[j].element = fields[k].element => j = k
      /\ \A j, k \in StandaloneStart..Len(fields) :
           fields[j].selector = fields[k].selector => j = k

\* C24: every field in the output of the hierarchical survey, from a question
\* block or from the standalone sweep, has a non-empty selector, also when
\* its input has neither an id nor a name.
C24_SelectorNeverEmpty ==
    (surveyor = "hierarchical" /\ fields # NotSurveyed) =>
      \A k \in DOMAIN fields : fields[k].selector.kind # "empty"


\* C25: a question block is classified radio if any of its inputs is a radio
\* button, else checkbox if any is a checkbox, else text if it has a text,
\* email or tel input, else textarea if it holds a textarea, else select if
\* it holds a select; so a block whose only input is a textarea is a textarea
\* block and one whose only input is a select is a select block.
HasInput(types) ==
    \E i \in DOMAIN block :
      /\ block[i].tag = "input"
      /\ (IF block[i].type = "" THEN "text" ELSE block[i].type) \in types

HasTag(tag) == \E i \in DOMAIN block : block[i].tag = tag

C25_BlockTypeClassification ==
    questionType # "none" =>
      /\ HasInput({"radio"}) => questionType = "radio"
      /\ (~HasInput({"radio"}) /\ HasInput({"checkbox"})) => questionType = "checkbox"
      /\ (~HasInput({"radio", "checkbox"}) /\ HasInput({"text", "email", "tel"}))
            => questionType = "text"
      /\ (~HasInput({"radio", "checkbox", "text", "email", "tel"}) /\ HasTag("textarea"))
            => questionType = "textarea"
      /\ (/\ ~HasInput({"radio", "checkbox", "text", "email", "tel"})
          /\ ~HasTag("textarea")
          /\ HasTag("select"))
            => questionType = "select"


\* C27: whatever the interleaving of scrapeJobPosting calls and
\* cleanupJobScraper, each JobScraper instance launches at most one browser,
\* and every launched browser that has not been closed is the one its
\* instance refers to.
BrowsersOf(i) == { b \in DOMAIN launched : launched[b].scraper = i }

C27_SingletonBrowser ==
    /\ \A i \in DOMAIN scraperBrowser : Cardinality(BrowsersOf(i)) <= 1
    /\ \A b \in DOMAIN launched :
         launched[b].state = "open" => scraperBrowser[launched[b].scraper] = b

\* C29: a scrapeJobPosting call that has returned, with success or with a
\* failure, has closed the page it opened; once all calls have returned no
\* page is open.
C29_PagesReleased ==
    \A c \in CallIds : callPc[c] = "done" => callPage[c] = NoPageOpen


\* C28: after any sequence of auto-apply requests, a record that the last
\* request left with submissionStatus "submitted" or status "Applied" was
\* submitted by the run of that request; a run that only fills the form
\* never marks the record so.
C28_RecordedSubmissionIsReal ==
    lastOp # NoResult =>
      \A a \in lastOp.wrote :
        (apps[a].submissionStatus = "submitted" \/ apps[a].status = "Applied")
          => runSubmitted


====
